---- MODULE Spec2Model ----
(***************************************************************************)
(* Model of the XReserve relay indexer (indexer/src: store, intake API,    *)
(* attestation poller, submitter) together with the destination contract   *)
(* XReserveRouter.receiveAndForward it submits to.                         *)
(*                                                                         *)
(* The indexer runs on one Node.js event loop: the code between two        *)
(* `await`s runs without interleaving, so every action below is one such   *)
(* run-to-completion segment of a handler or loop.  The environment is the *)
(* upstream attestation API (Iris), the destination ledger (mining of      *)
(* broadcast transactions, other callers of the permissionless router),    *)
(* the wall clock and process restarts.                                    *)
(***************************************************************************)
EXTENDS Integers, Sequences, FiniteSets, TLC

VARIABLES
    store,        \* relay_jobs table: sequence of rows in rowid order
    now,          \* wall clock (Date.now())
    pollerPc,     \* position of the poller loop
    pollerJobs,   \* rest of the `jobs` batch of the poller cycle; its head is
                  \* the job whose upstream call is awaited
    submitterPc,  \* position of the submitter loop
    submitterJob, \* `job` snapshot read at the top of the submitter iteration
    submitterTx,  \* `tx` returned by the broadcast (index into txs), -1 if none
    txs,          \* destination ledger: every broadcast transaction
    settledTransfers, \* XReserveRouter.settledTransfers
    usedNonces,   \* MessageTransmitter.usedNonces
    routerBalance,\* usdc.balanceOf(router)
    anyLogs,      \* TRUE: receipts may carry any set of the known topics
    maxRetries,   \* config.maxRetries, read from MAX_RETRIES at startup
    bucket,       \* irisRateLimiter: the TokenBucket, its sleeping callers and
                  \* the instants at which acquire() returned
    pollerWakeAt, \* end of the poller's sleep after a 429, -1 when not asleep
    validatorCall,  \* a call of validateAttestedMessage: arguments and result
    classifierCall, \* an outcome classification: the receipt logs and the outcome
    shutdown,       \* whether SIGINT/SIGTERM was received, and the cycles each
                    \* loop has started since
    routerCall,     \* the last receiveAndForward call made by RouterCall:
                    \* arguments, the ledger state before, the result, and the
                    \* (sourceDomain, nonce) pairs of the successful calls so
                    \* far (`earlier`: before this call; `recovered`: through
                    \* the consumed-nonce path)
    storeCall       \* the last call of createJob or updateJob made on the
                    \* Store itself: the method, its arguments and whether
                    \* it threw

vars == <<store, now, pollerPc, pollerJobs, submitterPc, submitterJob,
          submitterTx, txs, settledTransfers, usedNonces, routerBalance, anyLogs,
          maxRetries, bucket, pollerWakeAt, validatorCall, classifierCall,
          shutdown, routerCall, storeCall>>

-----------------------------------------------------------------------------
(* Bounds of the model *)

\* last instant of the wall clock
MaxClock == 2
\* cap on pollAttempts (not-yet-attested answers per job)
MaxPollAttempts == 1
\* hex digits of a txHash in the model (the source's regex asks for 64)
HashDigits == 2
\* largest MAX_RETRIES the process is started with (the default is 3)
MaxRetries == 2
\* config.attestationTimeoutMs (ATTESTATION_TIMEOUT_MS) in clock instants
AttestationTimeoutMs == 1

\* callers of acquire() that may be pending at once
MaxCallers == 3
\* capacity of the token bucket (maxTokens; 30 in the source)
BucketCapacity == 1
\* acquire() calls observed
MaxAcquires == 4
\* the poller's sleep after a 429 (60_000 ms in the source) in clock instants
RateLimitBackoffMs == 1
\* calls of a pure function on one input
MaxCalls == 2
\* logs of a receipt
MaxLogs == 3
\* cycles of a loop observed after the shutdown signal
MaxCyclesAfterSignal == 2
\* Largest relayFee a caller of the router claims
MaxRelayFee == 2
\* Largest LIMIT for which a batch query is examined
MaxBatchLimit == 2

-----------------------------------------------------------------------------
(* Small helpers *)

Min(a, b) == IF a <= b THEN a ELSE b

RECURSIVE Perms(_)
Perms(S) ==
    IF S = {} THEN {<<>>}
    ELSE UNION {{<<x>> \o p : p \in Perms(S \ {x})} : x \in S}

\* String.prototype.includes on messages built from fragments: a message is
\* the sequence of the fragments it was concatenated from.
Includes(message, fragment) == \E i \in 1..Len(message) : message[i] = fragment

-----------------------------------------------------------------------------
(* types.ts: RelayJob.  null is "null" for text columns, -1 for numeric     *)
(* columns, <<>> for the error text and NoMessage for the message.          *)

NullText == "null"
NullNum == -1
NullError == <<>>

Statuses == {"pending", "polling", "attested", "submitted", "confirmed", "failed"}

Outcomes == {"forwarded", "fallback", "operator_routed"}

\* A CCTP MessageV2 with its BurnMessageV2 body, by the fields at the fixed
\* offsets the validator and the contract read.
NoMessage ==
    [length |-> 0, sourceDomain |-> NullNum, destinationDomain |-> NullNum,
     nonce |-> NullNum, destinationCaller |-> [high |-> 0, low |-> NullText],
     mintRecipient |-> [high |-> 0, low |-> NullText],
     amount |-> NullNum, feeExecuted |-> NullNum, hookData |-> NullText]

RelayJob(txHash, sourceDomain, t) ==
    [txHash |-> txHash,
     sourceDomain |-> sourceDomain,
     attestedMessage |-> NoMessage,
     attestation |-> NullText,
     irisNonce |-> NullNum,
     mintRecipient |-> NullText,
     destinationDomain |-> NullNum,
     amount |-> NullNum,
     ethTxHash |-> NullNum,
     ethBlockNumber |-> NullNum,
     status |-> "pending",
     outcome |-> NullText,
     error |-> NullError,
     pollAttempts |-> 0,
     retryCount |-> 0,
     createdAt |-> t,
     attestedAt |-> NullNum,
     submittedAt |-> NullNum,
     confirmedAt |-> NullNum,
     updatedAt |-> t]

-----------------------------------------------------------------------------
(* store.ts *)

\* columnMap of updateJob: the fields an update may name
columnMap ==
    {"sourceDomain", "attestedMessage", "attestation", "irisNonce",
     "mintRecipient", "destinationDomain", "amount", "ethTxHash",
     "ethBlockNumber", "status", "outcome", "error", "pollAttempts",
     "retryCount", "attestedAt", "submittedAt", "confirmedAt"}

TxHashesOf(s) == {s[i].txHash : i \in 1..Len(s)}

\* getJob: the row with that tx_hash (callers test HasJob first)
HasJob(s, txHash) == \E i \in 1..Len(s) : s[i].txHash = txHash

getJob(s, txHash) == s[CHOOSE i \in 1..Len(s) : s[i].txHash = txHash]

\* Faulty variant of createJobThrows: tx_hash is not a key of the table
createJobThrowsNever(s, job) == FALSE

\* createJob: INSERT; the PRIMARY KEY makes it throw on an existing tx_hash
createJobThrows(s, job) == HasJob(s, job.txHash)

createJob(s, job) == Append(s, job)

\* updateJob: UPDATE ... SET updated_at = now, <named columns> WHERE tx_hash
\* Faulty variant of updateRow: updated_at is not part of the SET clause
updateRowKeepsUpdatedAt(row, updates, t) ==
    [f \in DOMAIN row |->
        IF f \in columnMap /\ f \in DOMAIN updates THEN updates[f]
        ELSE row[f]]

\* Faulty variant of updateRow: created_at is part of the SET clause as well
updateRowTouchesCreatedAt(row, updates, t) ==
    [f \in DOMAIN row |->
        IF f \in {"updatedAt", "createdAt"} THEN t
        ELSE IF f \in columnMap /\ f \in DOMAIN updates THEN updates[f]
        ELSE row[f]]

updateRow(row, updates, t) ==
    [f \in DOMAIN row |->
        IF f = "updatedAt" THEN t
        ELSE IF f \in columnMap /\ f \in DOMAIN updates THEN updates[f]
        ELSE row[f]]

updateJob(s, txHash, updates, t) ==
    [i \in 1..Len(s) |->
        IF s[i].txHash = txHash THEN updateRow(s[i], updates, t) ELSE s[i]]

\* Faulty variant of getJobsByStatus: the WHERE clause is missing
getJobsByStatusNoWhere(s, statuses, limit) ==
    LET hit == 1..Len(s)
        ordered == {p \in Perms(hit) :
                      \A i, j \in 1..Len(p) :
                          i < j => s[p[i]].createdAt <= s[p[j]].createdAt}
    IN {[k \in 1..Min(limit, Len(p)) |-> s[p[k]]] : p \in ordered}

\* Faulty variant of getJobsByStatus: the LIMIT is missing
getJobsByStatusNoLimit(s, statuses, limit) ==
    LET hit == {i \in 1..Len(s) : s[i].status \in statuses}
        ordered == {p \in Perms(hit) :
                      \A i, j \in 1..Len(p) :
                          i < j => s[p[i]].createdAt <= s[p[j]].createdAt}
    IN {[k \in 1..Len(p) |-> s[p[k]]] : p \in ordered}

\* SELECT ... WHERE status IN (...) ORDER BY created_at ASC LIMIT ?
\* Rows with equal created_at come in an order SQL leaves open.
getJobsByStatus(s, statuses, limit) ==
    LET hit == {i \in 1..Len(s) : s[i].status \in statuses}
        ordered == {p \in Perms(hit) :
                      \A i, j \in 1..Len(p) :
                          i < j => s[p[i]].createdAt <= s[p[j]].createdAt}
    IN {[k \in 1..Min(limit, Len(p)) |-> s[p[k]]] : p \in ordered}

\* Faulty variant of getOldestByStatus: the ORDER BY is missing
getOldestByStatusAnyRow(s, status) ==
    {s[i] : i \in {i \in 1..Len(s) : s[i].status = status}}

\* SELECT ... WHERE status = ? ORDER BY created_at ASC LIMIT 1
getOldestByStatus(s, status) ==
    {s[i] : i \in {i \in 1..Len(s) :
                     /\ s[i].status = status
                     /\ \A j \in 1..Len(s) :
                          s[j].status = status => s[i].createdAt <= s[j].createdAt}}

-----------------------------------------------------------------------------
(* api.ts: POST /relay *)

\* Known CCTP v2 source domains (excludes 0 = Ethereum, the destination)
\* Faulty variant of VALID_SOURCE_DOMAINS: the destination domain is listed
ValidSourceDomainsWithZero ==
    {0, 1, 2, 3, 6, 7, 10, 11, 12, 13, 14, 15, 16, 18, 19, 21, 22}

VALID_SOURCE_DOMAINS == {1, 2, 3, 6, 7, 10, 11, 12, 13, 14, 15, 16, 18, 19, 21, 22}

HexDigitChars ==
    {"0", "1", "2", "3", "4", "5", "6", "7", "8", "9",
     "a", "b", "c", "d", "e", "f", "A", "B", "C", "D", "E", "F"}

\* /^0x[a-fA-F0-9]{64}$/ with HashDigits digits
TX_HASH_REGEX(h) ==
    /\ Len(h) = 2 + HashDigits
    /\ h[1] = "0"
    /\ h[2] = "x"
    /\ \A i \in 3..Len(h) : h[i] \in HexDigitChars

LowerChar(c) ==
    CASE c = "A" -> "a"
      [] c = "B" -> "b"
      [] c = "C" -> "c"
      [] c = "D" -> "d"
      [] c = "E" -> "e"
      [] c = "F" -> "f"
      [] c = "X" -> "x"
      [] OTHER -> c

\* Faulty variant of toLowerCase: the hash is stored as it was sent
toLowerCaseKeepsCase(h) == h

toLowerCase(h) == [i \in 1..Len(h) |-> LowerChar(h[i])]

\* Request bodies tried: sourceDomain by its typeof and value, txHash by its
\* typeof and characters.
Digits(c, n) == [i \in 1..n |-> c]

TxHashInputs ==
    {<<"0", "x">> \o Digits("a", HashDigits),
     <<"0", "x">> \o Digits("A", HashDigits),
     <<"0", "x">> \o <<"A">> \o Digits("a", HashDigits - 1),
     <<"0", "x">> \o Digits("b", HashDigits),
     <<"0", "x">> \o Digits("g", HashDigits),
     <<"0", "x">> \o Digits("a", HashDigits - 1),
     <<"0", "X">> \o Digits("a", HashDigits),
     Digits("a", HashDigits + 2)}

SourceDomainInputs == {0, 3, 4}

RequestBodies ==
    [sourceDomainType : {"number"}, sourceDomain : {3},
     txHashType : {"string"}, txHash : TxHashInputs]
    \cup [sourceDomainType : {"number"}, sourceDomain : SourceDomainInputs,
          txHashType : {"string"}, txHash : {<<"0", "x">> \o Digits("a", HashDigits)}]
    \cup [sourceDomainType : {"string"}, sourceDomain : {3},
          txHashType : {"string"}, txHash : {<<"0", "x">> \o Digits("a", HashDigits)}]
    \cup [sourceDomainType : {"number"}, sourceDomain : {3},
          txHashType : {"undefined"}, txHash : {<<>>}]

\* The request bodies that name one burn transaction (in any letter case) or
\* are malformed
OneBurnBodies ==
    {body \in RequestBodies :
        body.txHashType = "string" /\ TX_HASH_REGEX(body.txHash)
            => toLowerCase(body.txHash) = <<"0", "x">> \o Digits("a", HashDigits)}

ValidBody(body) ==
    /\ body.sourceDomainType = "number"
    /\ body.sourceDomain \in VALID_SOURCE_DOMAINS
    /\ body.txHashType = "string"
    /\ TX_HASH_REGEX(body.txHash)

\* The answer of POST /relay and the store it leaves
PostRelayResult(s, body, t) ==
    IF ~(body.sourceDomainType = "number" /\ body.sourceDomain \in VALID_SOURCE_DOMAINS)
    THEN [store |-> s, response |-> [code |-> 400, txHash |-> <<>>, status |-> NullText]]
    ELSE IF ~(body.txHashType = "string" /\ TX_HASH_REGEX(body.txHash))
    THEN [store |-> s, response |-> [code |-> 400, txHash |-> <<>>, status |-> NullText]]
    ELSE LET normalizedTxHash == toLowerCase(body.txHash) IN
         IF HasJob(s, normalizedTxHash)
         THEN [store |-> s,
               response |-> [code |-> 200,
                             txHash |-> getJob(s, normalizedTxHash).txHash,
                             status |-> getJob(s, normalizedTxHash).status]]
         ELSE LET job == RelayJob(normalizedTxHash, body.sourceDomain, t) IN
              IF createJobThrows(s, job)
              THEN [store |-> s,
                    response |-> [code |-> 500, txHash |-> <<>>, status |-> NullText]]
              ELSE [store |-> createJob(s, job),
                    response |-> [code |-> 201, txHash |-> normalizedTxHash,
                                  status |-> "pending"]]

PostRelay(body) ==
    LET r == PostRelayResult(store, body, now) IN
    /\ store' = r.store
    /\ UNCHANGED <<now, pollerPc, pollerJobs, submitterPc,
                   submitterJob, submitterTx, txs, settledTransfers,
                   usedNonces, routerBalance, anyLogs, maxRetries, bucket, pollerWakeAt,
                   validatorCall, classifierCall, shutdown, routerCall, storeCall>>

-----------------------------------------------------------------------------
(* store.ts: createJob and updateJob called on the Store itself *)

NoStoreCall ==
    [op |-> "none", job |-> RelayJob(<<>>, NullNum, NullNum), txHash |-> <<>>,
     update |-> 0, threw |-> FALSE]

\* The tx_hash values of the direct calls
StoreHashes ==
    {<<"0", "x">> \o Digits("a", HashDigits), <<"0", "x">> \o Digits("b", HashDigits)}

\* The `updates` arguments of the direct calls: one the poller passes, one
\* that also names fields columnMap does not hold, and the empty one
StoreUpdates ==
    <<[status |-> "failed", error |-> <<"attestation_timeout">>],
      [txHash |-> <<"0", "x">> \o Digits("c", HashDigits), createdAt |-> MaxClock + 1,
       updatedAt |-> MaxClock + 1, retryCount |-> 1],
      <<>>>>

\* store.createJob(job): the INSERT runs, or throws and inserts nothing
StoreCreate(job) ==
    /\ store' = IF createJobThrows(store, job) THEN store ELSE createJob(store, job)
    /\ storeCall' = [op |-> "createJob", job |-> job, txHash |-> job.txHash,
                     update |-> 0, threw |-> createJobThrows(store, job)]
    /\ UNCHANGED <<now, pollerPc, pollerJobs, submitterPc, submitterJob,
                   submitterTx, txs, settledTransfers, usedNonces, routerBalance,
                   anyLogs, maxRetries, bucket, pollerWakeAt, validatorCall,
                   classifierCall, shutdown, routerCall>>

\* store.updateJob(txHash, updates)
StoreUpdate(txHash, k) ==
    /\ store' = updateJob(store, txHash, StoreUpdates[k], now)
    /\ storeCall' = [op |-> "updateJob", job |-> NoStoreCall.job, txHash |-> txHash,
                     update |-> k, threw |-> FALSE]
    /\ UNCHANGED <<now, pollerPc, pollerJobs, submitterPc, submitterJob,
                   submitterTx, txs, settledTransfers, usedNonces, routerBalance,
                   anyLogs, maxRetries, bucket, pollerWakeAt, validatorCall,
                   classifierCall, shutdown, routerCall>>

\* The body of the 404 answer of GET /relay/:txHash
JobNotFound ==
    [txHash |-> <<>>, sourceDomain |-> NullNum, status |-> NullText,
     outcome |-> NullText, error |-> <<"Job not found">>, ethTxHash |-> NullNum,
     createdAt |-> NullNum, attestedAt |-> NullNum, submittedAt |-> NullNum,
     confirmedAt |-> NullNum]

\* Faulty variant of GetRelay: the answer also tells the retry count
GetRelayTellsRetries(s, rawParam) ==
    LET txHash == toLowerCase(rawParam) IN
    IF ~HasJob(s, txHash)
    THEN [code |-> 404, body |-> JobNotFound]
    ELSE LET job == getJob(s, txHash) IN
         [code |-> 200,
          body |-> [txHash |-> job.txHash, sourceDomain |-> job.sourceDomain,
                    status |-> job.status, outcome |-> job.outcome,
                    error |-> job.error, ethTxHash |-> job.ethTxHash,
                    createdAt |-> job.createdAt, attestedAt |-> job.attestedAt,
                    submittedAt |-> job.submittedAt,
                    confirmedAt |-> job.confirmedAt, retryCount |-> job.retryCount]]

\* The answer of GET /relay/:txHash
GetRelay(s, rawParam) ==
    LET txHash == toLowerCase(rawParam) IN
    IF ~HasJob(s, txHash)
    THEN [code |-> 404, body |-> JobNotFound]
    ELSE LET job == getJob(s, txHash) IN
         [code |-> 200,
          body |-> [txHash |-> job.txHash, sourceDomain |-> job.sourceDomain,
                    status |-> job.status, outcome |-> job.outcome,
                    error |-> job.error, ethTxHash |-> job.ethTxHash,
                    createdAt |-> job.createdAt, attestedAt |-> job.attestedAt,
                    submittedAt |-> job.submittedAt,
                    confirmedAt |-> job.confirmedAt]]

-----------------------------------------------------------------------------
(* config.ts *)

\* config.routerAddress (ROUTER_ADDRESS) and its bytes32 form
routerAddress == "router"

routerBytes32 == [high |-> 0, low |-> routerAddress]

BYTES32_ZERO == [high |-> 0, low |-> "zero"]

\* config.relayFee (RELAY_FEE, default 0)
relayFee == 0

attestationTimeoutMs == AttestationTimeoutMs

-----------------------------------------------------------------------------
(* ratelimit.ts: TokenBucket.  One clock instant is the time one token takes *)
(* to refill (1 / refillRate seconds), so tokens stay whole numbers.         *)

Callers == 1..MaxCallers

maxTokens == BucketCapacity

\* tokens per clock instant
refillRate == 1

\* constructor: a full bucket; nobody sleeps, nothing returned yet
NewBucket ==
    [tokens |-> maxTokens, lastRefill |-> 0,
     wakeAt |-> [c \in Callers |-> NullNum], returns |-> <<>>]

\* refill(): tokens = min(maxTokens, tokens + elapsed * refillRate)
refill(b, t) ==
    [b EXCEPT !.tokens = Min(maxTokens, b.tokens + (t - b.lastRefill) * refillRate),
              !.lastRefill = t]

\* this.tokens -= 1, and acquire() returns
takeToken(b, t) ==
    [b EXCEPT !.tokens = b.tokens - 1, !.returns = Append(b.returns, t)]

\* acquire() up to its await: refill, then take a token and return, or go to
\* sleep for (1 - tokens) / refillRate
AcquireCall(c) ==
    /\ bucket.wakeAt[c] = NullNum
    /\ Len(bucket.returns) + Cardinality({d \in Callers : bucket.wakeAt[d] # NullNum})
         < MaxAcquires
    /\ LET b == refill(bucket, now) IN
       bucket' = IF b.tokens < 1
                 THEN [b EXCEPT !.wakeAt[c] = now + (1 - b.tokens) \div refillRate]
                 ELSE takeToken(b, now)
    /\ UNCHANGED <<store, now, pollerPc, pollerJobs, submitterPc, submitterJob,
                   submitterTx, txs, settledTransfers, usedNonces, routerBalance,
                   anyLogs, maxRetries, pollerWakeAt,
                   validatorCall, classifierCall, shutdown, routerCall, storeCall>>

\* the sleep is over (a timer fires at its time or later): refill, take a
\* token whatever the count, return
AcquireWake(c) ==
    /\ bucket.wakeAt[c] # NullNum
    /\ now >= bucket.wakeAt[c]
    /\ bucket' = takeToken([refill(bucket, now) EXCEPT !.wakeAt[c] = NullNum], now)
    /\ UNCHANGED <<store, now, pollerPc, pollerJobs, submitterPc, submitterJob,
                   submitterTx, txs, settledTransfers, usedNonces, routerBalance,
                   anyLogs, maxRetries, pollerWakeAt,
                   validatorCall, classifierCall, shutdown, routerCall, storeCall>>

-----------------------------------------------------------------------------
(* Attested messages the upstream may serve.  A bytes32 is the pair of its  *)
(* upper 12 bytes (0 when all zero) and its low 20 bytes (an address).      *)

Message(len, sd, dd, n, caller, recipient, amt, fee, hook) ==
    [length |-> len, sourceDomain |-> sd, destinationDomain |-> dd,
     nonce |-> n, destinationCaller |-> caller, mintRecipient |-> recipient,
     amount |-> amt, feeExecuted |-> fee, hookData |-> hook]

\* The upstream is asked per (sourceDomain, txHash) and answers with
\* messages of that source domain; eventNonce is the message's nonce.
\* Served: two well-formed transfers (nonce 1 with forwarding parameters for
\* the router as caller, nonce 2 with empty hookData for any caller), one
\* whose fee equals its amount, one cut short, and one whose mintRecipient has
\* the router in its low 20 bytes under non-zero upper bytes.
MessagesFor(sd) ==
    {Message(400, sd, 0, 1, routerBytes32, routerBytes32, 2, 0, "params"),
     Message(400, sd, 0, 2, BYTES32_ZERO, routerBytes32, 2, 0, "empty"),
     Message(400, sd, 0, 2, routerBytes32, routerBytes32, 1, 1, "params"),
     Message(247, sd, 0, 1, routerBytes32, routerBytes32, 2, 0, "empty"),
     Message(400, sd, 0, 1, routerBytes32, [high |-> 1, low |-> routerAddress],
             2, 0, "params")}

\* A `message` string that is not hex: ethers.getBytes throws on it
MalformedHex == [NoMessage EXCEPT !.hookData = "not hex"]

getBytesThrows(message) == message = MalformedHex

-----------------------------------------------------------------------------
(* poller.ts: validateAttestedMessage *)

\* Hex text of an address in lower case.  The 20 bytes of an address are
\* written by their lower-case hex text ("router", "other"; "zero" has
\* digits only); "Router" and "Other" are the mixed-case (EIP-55 checksum)
\* texts of the same bytes and "ROUTER" the upper-case one.
addressToLowerCase(a) ==
    CASE a \in {"Router", "ROUTER"} -> "router"
      [] a = "Other" -> "other"
      [] OTHER -> a

\* ethers.getAddress: the checksum text of an address
getAddress(a) ==
    CASE addressToLowerCase(a) = "router" -> "Router"
      [] addressToLowerCase(a) = "other" -> "Other"
      [] OTHER -> a

\* String.toLowerCase on the hex text of a bytes32
bytes32ToLowerCase(b) == [high |-> b.high, low |-> addressToLowerCase(b.low)]

\* Faulty variant of tooShort: a message of exactly 248 bytes is refused
tooShortAt248(message) == message.length <= 248

\* The length check
tooShort(message) == message.length < 248

\* Faulty variant of callerRefused: router32 is compared as it is written
callerRefusedCaseSensitive(destinationCaller, router32) ==
    /\ destinationCaller # BYTES32_ZERO
    /\ destinationCaller # router32

\* The destinationCaller check; destinationCaller is the hexlify (lower-case
\* text) of the bytes at offset 108
callerRefused(destinationCaller, router32) ==
    /\ destinationCaller # BYTES32_ZERO
    /\ bytes32ToLowerCase(destinationCaller) # bytes32ToLowerCase(router32)

validateAttestedMessage(message, router, router32) ==
    IF tooShort(message)
    THEN [valid |-> FALSE, reason |-> <<"message too short">>,
          mintRecipient |-> NullText, destinationDomain |-> NullNum,
          amount |-> NullNum]
    ELSE IF message.destinationDomain # 0
    THEN [valid |-> FALSE,
          reason |-> <<"destination domain ", ToString(message.destinationDomain),
                       " != 0 (Ethereum)">>,
          mintRecipient |-> NullText, destinationDomain |-> NullNum,
          amount |-> NullNum]
    ELSE IF callerRefused(message.destinationCaller, router32)
    THEN [valid |-> FALSE,
          reason |-> <<"destinationCaller ", message.destinationCaller.low,
                       " != router or zero">>,
          mintRecipient |-> NullText, destinationDomain |-> NullNum,
          amount |-> NullNum]
    ELSE LET mintRecipient == getAddress(message.mintRecipient.low) IN
         IF addressToLowerCase(mintRecipient) # addressToLowerCase(router)
         THEN [valid |-> FALSE,
               reason |-> <<"mintRecipient ", mintRecipient, " != router ", router>>,
               mintRecipient |-> NullText, destinationDomain |-> NullNum,
               amount |-> NullNum]
         ELSE [valid |-> TRUE, reason |-> NullError,
               mintRecipient |-> mintRecipient,
               destinationDomain |-> message.destinationDomain,
               amount |-> message.amount]

\* The validator called on its own: messages of every length around the
\* minimum, with each field right or wrong, for a router address and a
\* router bytes32 written in lower or mixed case
ValidatorMessages ==
    {Message(len, 3, dd, 1, caller, recipient, amt, 0, "empty") :
        len \in {0, 247, 248, 400}, dd \in {0, 3},
        caller \in {BYTES32_ZERO, routerBytes32, [high |-> 0, low |-> "other"],
                    [high |-> 1, low |-> routerAddress]},
        recipient \in {routerBytes32, [high |-> 1, low |-> routerAddress],
                       [high |-> 0, low |-> "other"]},
        amt \in {0, 2}}

NoValidation ==
    [valid |-> FALSE, reason |-> NullError, mintRecipient |-> NullText,
     destinationDomain |-> NullNum, amount |-> NullNum]

NoValidatorCall ==
    [message |-> NoMessage, router |-> NullText, router32 |-> BYTES32_ZERO,
     calls |-> 0, result |-> NoValidation]

ValidatorCalls ==
    {[message |-> m, router |-> r, router32 |-> [high |-> 0, low |-> r32],
      calls |-> 0, result |-> NoValidation] :
        m \in ValidatorMessages, r \in {"router", "Router"},
        r32 \in {"router", "ROUTER"}}

\* validateAttestedMessage is called (a first or a repeated time)
Validate ==
    /\ validatorCall.calls < MaxCalls
    /\ validatorCall' =
         [validatorCall EXCEPT
            !.calls = @ + 1,
            !.result = validateAttestedMessage(validatorCall.message,
                                               validatorCall.router,
                                               validatorCall.router32)]
    /\ UNCHANGED <<store, now, pollerPc, pollerJobs, submitterPc, submitterJob,
                   submitterTx, txs, settledTransfers, usedNonces, routerBalance,
                   anyLogs, maxRetries, bucket, pollerWakeAt, classifierCall, shutdown, routerCall, storeCall>>

-----------------------------------------------------------------------------
(* poller.ts: pollForAttestation *)

Entry(message, attestation, status) ==
    [message |-> message, attestation |-> attestation,
     eventNonce |-> message.nonce, status |-> status]

\* What the upstream may answer to GET /v2/messages/{sourceDomain}?transactionHash=
\* http = 0 stands for fetch() throwing (network error).
UpstreamResponses(sd) ==
    {[http |-> h, messages |-> <<>>] : h \in {0, 404, 429, 500, 200}}
    \cup {[http |-> h, messages |-> <<Entry(m, "0xattestation", "complete")>>] :
            h \in {200, 203, 500}, m \in MessagesFor(sd)}
    \cup {[http |-> 200, messages |-> <<Entry(MalformedHex, "0xattestation", "complete")>>]}
    \cup {[http |-> 200, messages |-> <<Entry(m, a, st)>>] :
            m \in {CHOOSE m \in MessagesFor(sd) : TRUE},
            a \in {"PENDING", "0xattestation"},
            st \in {"complete", "pending_confirmations"}}

\* Response.ok: the status is in the range 200-299
ok(response) == response.http \in 200..299

\* The answers that carry a complete attestation, and the 429
Attested(response) ==
    \/ response.http = 429
    \/ /\ ok(response)
       /\ response.messages # <<>>
       /\ response.messages[1].status = "complete"
       /\ response.messages[1].attestation # "PENDING"

NotYet(response) ==
    /\ response.http \notin {0, 429}
    /\ \/ ~ok(response)
       \/ response.messages = <<>>
       \/ ~(response.messages[1].status = "complete"
            /\ response.messages[1].attestation # "PENDING")

\* Faulty variant of pollForAttestation: a first entry that is complete is
\* taken although its attestation is still PENDING
pollForAttestationTakesPending(response) ==
    LET none == [message |-> NoMessage, attestation |-> NullText, nonce |-> NullNum] IN
    IF response.http = 0
    THEN [kind |-> "throw", error |-> "fetch failed", result |-> none]
    ELSE IF response.http = 404
    THEN [kind |-> "null", error |-> NullText, result |-> none]
    ELSE IF response.http = 429
    THEN [kind |-> "throw", error |-> "RATE_LIMITED", result |-> none]
    ELSE IF ~ok(response)
    THEN [kind |-> "null", error |-> NullText, result |-> none]
    ELSE IF Len(response.messages) = 0
    THEN [kind |-> "null", error |-> NullText, result |-> none]
    ELSE LET msg == response.messages[1] IN
         IF msg.status = "complete"
         THEN [kind |-> "result", error |-> NullText,
               result |-> [message |-> msg.message,
                           attestation |-> msg.attestation,
                           nonce |-> msg.eventNonce]]
         ELSE [kind |-> "null", error |-> NullText, result |-> none]

\* One upstream request: the rate limiter, the fetch, the reading of the answer
pollForAttestation(response) ==
    LET none == [message |-> NoMessage, attestation |-> NullText, nonce |-> NullNum] IN
    IF response.http = 0
    THEN [kind |-> "throw", error |-> "fetch failed", result |-> none]
    ELSE IF response.http = 404
    THEN [kind |-> "null", error |-> NullText, result |-> none]
    ELSE IF response.http = 429
    THEN [kind |-> "throw", error |-> "RATE_LIMITED", result |-> none]
    ELSE IF ~ok(response)
    THEN [kind |-> "null", error |-> NullText, result |-> none]
    ELSE IF Len(response.messages) = 0
    THEN [kind |-> "null", error |-> NullText, result |-> none]
    ELSE LET msg == response.messages[1] IN
         IF msg.status = "complete" /\ msg.attestation # "PENDING"
         THEN [kind |-> "result", error |-> NullText,
               result |-> [message |-> msg.message,
                           attestation |-> msg.attestation,
                           nonce |-> msg.eventNonce]]
         ELSE [kind |-> "null", error |-> NullText, result |-> none]

-----------------------------------------------------------------------------
(* poller.ts: startPoller.loop *)

\* Faulty variant of catches: the loops lack their outer try/catch
catchesInnerOnly(region) == region \in {"poll", "submission"}

\* The try/catch blocks of the two loops.  An error thrown while a job is
\* polled ("poll") is caught by the inner catch of the poller, one thrown
\* elsewhere in a poller cycle ("cycle") by its outer catch; an error thrown
\* while a job is submitted ("submission") is caught by the inner catch of
\* the submitter, one thrown elsewhere in its iteration, the inner catch
\* block included ("iteration"), by its outer catch.
catches(region) == region \in {"poll", "cycle", "submission", "iteration"}

\* The fields of a `job` of the batch the loop reads
pollerView(row) ==
    [txHash |-> row.txHash, sourceDomain |-> row.sourceDomain,
     status |-> row.status, pollAttempts |-> row.pollAttempts,
     createdAt |-> row.createdAt]

\* Faulty variant of pollerStart: the timeout branch lacks its `continue`,
\* so a job just failed for timeout is polled all the same.
pollerStartNoContinue(s, job, t) ==
    LET s1 == IF t - job.createdAt > attestationTimeoutMs
              THEN updateJob(s, job.txHash,
                             [status |-> "failed", error |-> <<"attestation_timeout">>], t)
              ELSE s
    IN [store |-> IF job.status = "pending"
                  THEN updateJob(s1, job.txHash, [status |-> "polling"], t)
                  ELSE s1,
        fetch |-> TRUE]

\* Faulty variant of pollerStart: the timeout check is missing
pollerStartNoTimeout(s, job, t) ==
    [store |-> IF job.status = "pending"
               THEN updateJob(s, job.txHash, [status |-> "polling"], t)
               ELSE s,
     fetch |-> TRUE]

\* Faulty variant of pollerStart: the timeout is compared with >=
pollerStartTimeoutAtEqual(s, job, t) ==
    IF t - job.createdAt >= attestationTimeoutMs
    THEN [store |-> updateJob(s, job.txHash,
                              [status |-> "failed", error |-> <<"attestation_timeout">>], t),
          fetch |-> FALSE]
    ELSE [store |-> IF job.status = "pending"
                    THEN updateJob(s, job.txHash, [status |-> "polling"], t)
                    ELSE s,
          fetch |-> TRUE]

\* Faulty variant of pollerStart: the upstream call is issued for a pending
\* job without the update to polling
pollerStartNoPersist(s, job, t) ==
    IF t - job.createdAt > attestationTimeoutMs
    THEN [store |-> updateJob(s, job.txHash,
                              [status |-> "failed", error |-> <<"attestation_timeout">>], t),
          fetch |-> FALSE]
    ELSE [store |-> s, fetch |-> TRUE]

\* The for-body for one job up to the upstream call: a timed-out job is
\* failed and skipped (`continue`); any other is moved pending -> polling
\* and its upstream call is issued.
pollerStart(s, job, t) ==
    IF t - job.createdAt > attestationTimeoutMs
    THEN [store |-> updateJob(s, job.txHash,
                              [status |-> "failed", error |-> <<"attestation_timeout">>], t),
          fetch |-> FALSE]
    ELSE [store |-> IF job.status = "pending"
                    THEN updateJob(s, job.txHash, [status |-> "polling"], t)
                    ELSE s,
          fetch |-> TRUE]

\* The for loop over the rest `jobs` of the batch up to the next upstream
\* call; the job whose call is awaited stays the head of the rest, and the
\* rest is empty when the batch is exhausted.
RECURSIVE pollerAdvance(_, _, _)
pollerAdvance(s, jobs, t) ==
    IF jobs = <<>> THEN [store |-> s, jobs |-> jobs]
    ELSE LET r == pollerStart(s, Head(jobs), t) IN
         IF r.fetch THEN [store |-> r.store, jobs |-> jobs]
         ELSE pollerAdvance(r.store, Tail(jobs), t)

\* Faulty variant of pollerHandle: the attested update sets the status and
\* the counter only, the attested fields are left for a later update
pollerHandleStatusFirst(s, job, response, t) ==
    LET polled == pollForAttestation(response) IN
    IF polled.kind = "throw" THEN s
    ELSE IF polled.kind = "result" /\ getBytesThrows(polled.result.message) THEN s
    ELSE IF polled.kind = "result"
    THEN LET result == polled.result
             validation == validateAttestedMessage(result.message, routerAddress,
                                                   routerBytes32)
         IN IF ~validation.valid
            THEN updateJob(s, job.txHash,
                           [status |-> "failed", error |-> validation.reason], t)
            ELSE updateJob(s, job.txHash,
                           [status |-> "attested",
                            pollAttempts |-> job.pollAttempts + 1], t)
    ELSE updateJob(s, job.txHash, [pollAttempts |-> job.pollAttempts + 1], t)

\* Faulty variant of pollerHandle: a poll without a result is not counted
pollerHandleNoCount(s, job, response, t) ==
    LET polled == pollForAttestation(response) IN
    IF polled.kind = "throw" THEN s
    ELSE IF polled.kind = "result" /\ getBytesThrows(polled.result.message) THEN s
    ELSE IF polled.kind = "result"
    THEN LET result == polled.result
             validation == validateAttestedMessage(result.message, routerAddress,
                                                   routerBytes32)
         IN IF ~validation.valid
            THEN updateJob(s, job.txHash,
                           [status |-> "failed", error |-> validation.reason], t)
            ELSE updateJob(s, job.txHash,
                           [status |-> "attested",
                            attestedMessage |-> result.message,
                            attestation |-> result.attestation,
                            irisNonce |-> result.nonce,
                            mintRecipient |-> validation.mintRecipient,
                            destinationDomain |-> validation.destinationDomain,
                            amount |-> validation.amount,
                            attestedAt |-> t,
                            pollAttempts |-> job.pollAttempts + 1], t)
    ELSE updateJob(s, job.txHash, [status |-> "polling"], t)

\* The store after the upstream answered for `job` (no change when the call threw)
pollerHandle(s, job, response, t) ==
    LET polled == pollForAttestation(response) IN
    IF polled.kind = "throw" THEN s
    ELSE IF polled.kind = "result" /\ getBytesThrows(polled.result.message) THEN s
    ELSE IF polled.kind = "result"
    THEN LET result == polled.result
             validation == validateAttestedMessage(result.message, routerAddress,
                                                   routerBytes32)
         IN IF ~validation.valid
            THEN updateJob(s, job.txHash,
                           [status |-> "failed", error |-> validation.reason], t)
            ELSE updateJob(s, job.txHash,
                           [status |-> "attested",
                            attestedMessage |-> result.message,
                            attestation |-> result.attestation,
                            irisNonce |-> result.nonce,
                            mintRecipient |-> validation.mintRecipient,
                            destinationDomain |-> validation.destinationDomain,
                            amount |-> validation.amount,
                            attestedAt |-> t,
                            pollAttempts |-> job.pollAttempts + 1], t)
    ELSE updateJob(s, job.txHash, [pollAttempts |-> job.pollAttempts + 1], t)

\* Faulty variant of pollerAfter: a 429 ends the cycle without the sleep
pollerAfterNoBackoff(s, jobs, response, t) ==
    IF pollForAttestation(response).kind = "throw"
       /\ pollForAttestation(response).error = "RATE_LIMITED"
    THEN [store |-> s, jobs |-> <<>>, backoff |-> FALSE]
    ELSE [store |-> pollerAdvance(pollerHandle(s, Head(jobs), response, t),
                                  Tail(jobs), t).store,
          jobs |-> pollerAdvance(pollerHandle(s, Head(jobs), response, t),
                                 Tail(jobs), t).jobs,
          backoff |-> FALSE]

\* Where the loop stands after the answer for the head of `jobs`: at the next
\* upstream call, at the top of the loop (batch exhausted), or in the 60 s
\* sleep that precedes the `break` on 429.
pollerAfter(s, jobs, response, t) ==
    IF pollForAttestation(response).kind = "throw"
       /\ pollForAttestation(response).error = "RATE_LIMITED"
    THEN [store |-> s, jobs |-> <<>>, backoff |-> TRUE]
    ELSE LET r == pollerAdvance(pollerHandle(s, Head(jobs), response, t),
                                Tail(jobs), t)
         IN [store |-> r.store, jobs |-> r.jobs, backoff |-> FALSE]

\* The answers on which the handling of the awaited call throws inside the
\* inner try: fetch failed, or the message is not hex
Throws(response) ==
    \/ pollForAttestation(response).kind = "throw"
         /\ pollForAttestation(response).error # "RATE_LIMITED"
    \/ pollForAttestation(response).kind = "result"
         /\ getBytesThrows(pollForAttestation(response).result.message)

\* Top of the while loop: read the batch, run up to the first upstream call
PollerCycle ==
    /\ pollerPc = "top"
    /\ \E batch \in getJobsByStatus(store, {"pending", "polling"}, 20) :
         LET jobs == [k \in 1..Len(batch) |-> pollerView(batch[k])]
             r == pollerAdvance(store, jobs, now)
         IN /\ jobs # <<>>
            /\ store' = r.store
            /\ pollerJobs' = r.jobs
            /\ pollerPc' = IF r.jobs = <<>> THEN "top" ELSE "fetch"
    /\ shutdown.raised => shutdown.pollerCycles < MaxCyclesAfterSignal
    /\ shutdown' = IF shutdown.raised
                   THEN [shutdown EXCEPT !.pollerCycles = @ + 1]
                   ELSE shutdown
    /\ UNCHANGED <<now, submitterPc, submitterJob, submitterTx,
                   txs, settledTransfers, usedNonces, routerBalance, anyLogs, maxRetries, bucket, pollerWakeAt,
                   validatorCall, classifierCall, routerCall, storeCall>>

\* The awaited upstream call completes; run up to the next upstream call,
\* or start the sleep of the back-off.  A 429 is answered while the end of
\* its back-off lies within the clock of the model.
PollerResponse(response) ==
    /\ pollerPc = "fetch"
    /\ NotYet(response) => Head(pollerJobs).pollAttempts < MaxPollAttempts
    /\ response.http = 429 => now + RateLimitBackoffMs <= MaxClock
    /\ LET r == pollerAfter(store, pollerJobs, response, now) IN
       /\ store' = r.store
       /\ pollerJobs' = r.jobs
       /\ pollerPc' = IF r.backoff THEN "backoff"
                      ELSE IF Throws(response) /\ ~catches("poll") THEN "exited"
                      ELSE IF r.jobs = <<>> THEN "top" ELSE "fetch"
       /\ pollerWakeAt' = IF r.backoff THEN now + RateLimitBackoffMs ELSE NullNum
    /\ UNCHANGED <<now, submitterPc, submitterJob, submitterTx,
                   txs, settledTransfers, usedNonces, routerBalance, anyLogs, maxRetries, bucket,
                   validatorCall, classifierCall, shutdown, routerCall, storeCall>>

\* A store operation of the for-body of the next job throws once the answer
\* for the awaited one was handled: the outer catch ends the cycle
PollerStoreFails(response) ==
    /\ pollerPc = "fetch"
    /\ Tail(pollerJobs) # <<>>
    /\ response.http # 429
    /\ NotYet(response) => Head(pollerJobs).pollAttempts < MaxPollAttempts
    /\ store' = pollerHandle(store, Head(pollerJobs), response, now)
    /\ pollerJobs' = <<>>
    /\ pollerPc' = IF catches("cycle") THEN "top" ELSE "exited"
    /\ UNCHANGED <<now, submitterPc, submitterJob, submitterTx,
                   txs, settledTransfers, usedNonces, routerBalance, anyLogs, maxRetries, bucket,
                   pollerWakeAt, validatorCall, classifierCall, shutdown, routerCall, storeCall>>

\* The sleep of the back-off is over (a timer fires at its time or later):
\* `break`, then the top of the while loop
PollerWake ==
    /\ pollerPc = "backoff"
    /\ now >= pollerWakeAt
    /\ pollerPc' = "top"
    /\ pollerWakeAt' = NullNum
    /\ UNCHANGED <<store, now, pollerJobs, submitterPc, submitterJob, submitterTx,
                   txs, settledTransfers, usedNonces, routerBalance, anyLogs, maxRetries, bucket,
                   validatorCall, classifierCall, shutdown, routerCall, storeCall>>

-----------------------------------------------------------------------------
(* contracts/XReserveRouter.sol *)

MIN_MESSAGE_LENGTH == 376

ETHEREUM_CCTP_DOMAIN == 0

\* keccak256(abi.encodePacked(sourceDomain, nonce)), injective on the pair
transferIdOf(sourceDomain, nonce) == <<sourceDomain, nonce>>

OPERATOR_ROUTE_EMPTY_HOOK_DATA == 1

OPERATOR_ROUTE_MALFORMED_HOOK_DATA == 2

\* Holders of USDC a call may pay: msg.sender, xReserve, a fallbackRecipient
\* of the burner, operatorWallet, and the router itself
Accounts == {"caller", "xReserve", "user", "operator", routerAddress}

NoTransfers == [a \in Accounts |-> 0]

\* usdc.safeTransfer(to, amount), or the transferFrom xReserve makes
Pay(paid, to, amount) == [paid EXCEPT ![to] = @ + amount]

\* What the transfers of a call take out of the router's balance
Leaving(paid) ==
    paid["caller"] + paid["xReserve"] + paid["user"] + paid["operator"]

\* emit: the event with its topic0 and its arguments
Event(topic0, args) == [topic0 |-> topic0, args |-> args]

topicsOf(events) == [i \in 1..Len(events) |-> events[i].topic0]

Reverted(reason, settled, used, balance) ==
    [ok |-> FALSE, reason |-> reason, logs |-> <<>>, events |-> <<>>,
     paid |-> NoTransfers, settled |-> settled, used |-> used,
     balance |-> balance]

\* this.decodeForwardParams(rawHookData): the two fields the router reads,
\* or a failed decode.  hookData is one of: "params" (a fallbackRecipient of
\* the burner, relayMaxFee 1), "params_max0" (relayMaxFee 0),
\* "params_fallback_router" (fallbackRecipient is the router),
\* "zero_fallback" (fallbackRecipient 0), "malformed", "empty".
decodeForwardParams(rawHookData) ==
    IF rawHookData = "params"
    THEN [decoded |-> TRUE, fallbackRecipient |-> "user", relayMaxFee |-> 1]
    ELSE IF rawHookData = "params_max0"
    THEN [decoded |-> TRUE, fallbackRecipient |-> "user", relayMaxFee |-> 0]
    ELSE IF rawHookData = "params_fallback_router"
    THEN [decoded |-> TRUE, fallbackRecipient |-> routerAddress, relayMaxFee |-> 1]
    ELSE IF rawHookData = "zero_fallback"
    THEN [decoded |-> TRUE, fallbackRecipient |-> "zero", relayMaxFee |-> 1]
    ELSE [decoded |-> FALSE, fallbackRecipient |-> "zero", relayMaxFee |-> 0]

\* The two requires on relayFee
relayFeeAllowed(fee, relayMaxFee, mintedAmount) ==
    fee <= relayMaxFee /\ mintedAmount > fee

\* _settleAndRoute: mark the transfer settled, then route mintedAmount.
\* `events` are the events the call has emitted before.
settleAndRoute(message, fee, xReserveOk, events, settled, used, balance) ==
    LET mintedAmount == message.amount - message.feeExecuted
        transferId == transferIdOf(message.sourceDomain, message.nonce)
        settled2 == settled \cup {transferId}
        params == decodeForwardParams(message.hookData)
        forwardAmount == mintedAmount - fee
        Done(emitted, paid) ==
            [ok |-> TRUE, reason |-> NullText,
             logs |-> topicsOf(Append(events, emitted)),
             events |-> Append(events, emitted), paid |-> paid,
             settled |-> settled2, used |-> used,
             balance |-> balance - Leaving(paid)]
        routeToOperator(reason) ==
            Done(Event("OperatorRouted",
                       [transferId |-> transferId, nonce |-> message.nonce,
                        amount |-> mintedAmount, reason |-> reason]),
                 Pay(NoTransfers, "operator", mintedAmount))
        paidFee == Pay(NoTransfers, "caller", fee)
    IN IF message.hookData = "empty"
       THEN routeToOperator(OPERATOR_ROUTE_EMPTY_HOOK_DATA)
       ELSE IF ~params.decoded
       THEN routeToOperator(OPERATOR_ROUTE_MALFORMED_HOOK_DATA)
       ELSE IF params.fallbackRecipient = "zero"
       THEN Reverted("zero fallback", settled, used, balance)
       ELSE IF ~relayFeeAllowed(fee, params.relayMaxFee, mintedAmount)
       THEN Reverted(IF ~(fee <= params.relayMaxFee)
                     THEN "relay fee exceeds max" ELSE "relay fee too high",
                     settled, used, balance)
       ELSE IF xReserveOk
       THEN Done(Event("Relayed",
                       [sourceDomain |-> message.sourceDomain,
                        nonce |-> message.nonce,
                        amount |-> forwardAmount, relayFee |-> fee]),
                 Pay(paidFee, "xReserve", forwardAmount))
       ELSE Done(Event("FallbackTriggered",
                       [fallbackRecipient |-> params.fallbackRecipient,
                        amount |-> forwardAmount, relayFee |-> fee]),
                 Pay(paidFee, params.fallbackRecipient, forwardAmount))

\* MessageTransmitter.receiveMessage: consume the nonce and mint
\* amount - feeExecuted to the low 20 bytes of mintRecipient
receiveMessage(message, used, balance) ==
    IF message.nonce \in used
    THEN [ok |-> FALSE, returned |-> FALSE, reason |-> "Nonce already used",
          used |-> used, balance |-> balance]
    ELSE [ok |-> TRUE, returned |-> TRUE, reason |-> NullText,
          used |-> used \cup {message.nonce},
          balance |-> IF message.mintRecipient.low = routerAddress
                      THEN balance + (message.amount - message.feeExecuted)
                      ELSE balance]

\* What a transmitter may answer to the router's receiveMessage: the answer
\* above, a revert for another reason (shouldRevert, a bad attestation),
\* false (shouldReturnFalse), or a "Nonce already used" that usedNonces does
\* not bear out
TransmitterAnswers(message, used, balance) ==
    {receiveMessage(message, used, balance),
     [ok |-> FALSE, returned |-> FALSE,
      reason |-> "MockMessageTransmitter: forced revert",
      used |-> used, balance |-> balance],
     [ok |-> TRUE, returned |-> FALSE, reason |-> NullText,
      used |-> used, balance |-> balance],
     [ok |-> FALSE, returned |-> FALSE, reason |-> "Nonce already used",
      used |-> used, balance |-> balance]}

\* Faulty variant of recoverable: the router's balance is not looked at
recoverableAlways(balance, expectedMintedAmount) == TRUE

\* Recovery mode mints nothing: the router must already hold the amount
recoverable(balance, expectedMintedAmount) == balance >= expectedMintedAmount

\* Faulty variant of isSettled: the settledTransfers guard never fires
isSettledNever(settled, transferId) == FALSE

\* settledTransfers[transferId]
isSettled(settled, transferId) == transferId \in settled

\* receiveAndForward(message, attestation, relayFee) on the ledger state
\* (settled, used, balance), where `received` is the transmitter's answer to
\* receiveMessage; a revert leaves the ledger state as it was.
receiveAndForwardWith(received, message, fee, xReserveOk, settled, used, balance) ==
    IF message.length < MIN_MESSAGE_LENGTH
    THEN Reverted("message too short", settled, used, balance)
    ELSE IF message.destinationDomain # ETHEREUM_CCTP_DOMAIN
    THEN Reverted("invalid destinationDomain", settled, used, balance)
    ELSE IF message.destinationCaller # BYTES32_ZERO
            /\ message.destinationCaller # routerBytes32
    THEN Reverted("invalid destinationCaller", settled, used, balance)
    ELSE IF isSettled(settled, transferIdOf(message.sourceDomain, message.nonce))
    THEN Reverted("transfer settled", settled, used, balance)
    ELSE IF message.mintRecipient # routerBytes32
    THEN Reverted("invalid mintRecipient", settled, used, balance)
    ELSE IF ~(message.amount > message.feeExecuted)
    THEN Reverted("invalid fee", settled, used, balance)
    ELSE LET expectedMintedAmount == message.amount - message.feeExecuted
             Routed(r) == IF r.ok THEN r
                          ELSE Reverted(r.reason, settled, used, balance)
         IN
         IF received.ok
         THEN IF ~received.returned
              THEN Reverted("receive failed", settled, used, balance)
              ELSE IF ~(received.balance >= balance)
              THEN Reverted("balance mismatch", settled, used, balance)
              ELSE IF received.balance - balance # expectedMintedAmount
              THEN Reverted("mint mismatch", settled, used, balance)
              ELSE Routed(settleAndRoute(message, fee, xReserveOk, <<>>, settled,
                                         received.used, received.balance))
         ELSE \* catch Error(reason): recovery mode for a consumed nonce only
              IF received.reason # "Nonce already used"
              THEN Reverted("receive reverted", settled, used, balance)
              ELSE IF message.nonce \notin received.used
              THEN Reverted("nonce not used", settled, used, balance)
              ELSE IF ~recoverable(balance, expectedMintedAmount)
              THEN Reverted("insufficient recovered", settled, used, balance)
              ELSE Routed(settleAndRoute(
                              message, fee, xReserveOk,
                              <<Event("RecoveredFromConsumedNonce",
                                      [nonce |-> message.nonce,
                                       amount |-> expectedMintedAmount])>>,
                              settled, used, balance))

\* Faulty variant of receiveAndForward: the settledTransfers guard is missing
receiveAndForwardNoReplayGuard(message, fee, xReserveOk, settled, used, balance) ==
    LET transferId == transferIdOf(message.sourceDomain, message.nonce)
        r == receiveAndForwardWith(receiveMessage(message, used, balance),
                                   message, fee, xReserveOk,
                                   settled \ {transferId}, used, balance)
    IN [r EXCEPT !.settled = @ \cup settled]

\* receiveAndForward with the transmitter that receiveMessage describes
receiveAndForward(message, fee, xReserveOk, settled, used, balance) ==
    receiveAndForwardWith(receiveMessage(message, used, balance),
                          message, fee, xReserveOk, settled, used, balance)

-----------------------------------------------------------------------------
(* The router called by anyone, with any message and relayFee *)

\* Messages handed to the router, all of amount 2.  Transfer 1 (nonce 1,
\* the router as destinationCaller): one message for each kind of hookData,
\* one with feeExecuted 1, one cut short, one for another destination domain,
\* one for another caller, one minted to another recipient, and one whose
\* fee is its amount.  Transfer 2 (nonce 2, any caller): with empty and with
\* malformed hookData, and with forwarding parameters at feeExecuted 0 and 1.
HookData ==
    {"params", "params_max0", "params_fallback_router", "zero_fallback",
     "malformed", "empty"}

RouterMessages ==
    {Message(400, 3, 0, 1, routerBytes32, routerBytes32, 2, 0, hook) :
        hook \in HookData}
    \cup
    {Message(400, 3, 0, 1, routerBytes32, routerBytes32, 2, 1, "params"),
     Message(375, 3, 0, 1, routerBytes32, routerBytes32, 2, 0, "params"),
     Message(400, 3, 3, 1, routerBytes32, routerBytes32, 2, 0, "params"),
     Message(400, 3, 0, 1, [high |-> 0, low |-> "other"], routerBytes32, 2, 0,
             "params"),
     Message(400, 3, 0, 1, routerBytes32, [high |-> 0, low |-> "other"], 2, 0,
             "params"),
     Message(400, 3, 0, 1, routerBytes32, routerBytes32, 2, 2, "params")}
    \cup
    {Message(400, 3, 0, 2, BYTES32_ZERO, routerBytes32, 2, 0, "empty"),
     Message(400, 3, 0, 2, BYTES32_ZERO, routerBytes32, 2, 0, "malformed"),
     Message(400, 3, 0, 2, BYTES32_ZERO, routerBytes32, 2, 0, "params"),
     Message(400, 3, 0, 2, BYTES32_ZERO, routerBytes32, 2, 1, "params")}

\* The relayFee argument of a call
RelayFees == 0..MaxRelayFee

NoRouterCall ==
    [called |-> FALSE, message |-> NoMessage, fee |-> 0, xReserveOk |-> TRUE,
     received |-> receiveMessage(NoMessage, {}, 0),
     before |-> [settled |-> {}, used |-> {}, balance |-> 0],
     result |-> Reverted(NullText, {}, {}, 0),
     earlier |-> {}, succeeded |-> {}, recovered |-> {}]

\* Someone calls receiveAndForward(message, attestation, relayFee)
RouterCall(message, fee, xReserveOk) ==
    /\ \E received \in TransmitterAnswers(message, usedNonces, routerBalance) :
         LET r == receiveAndForwardWith(received, message, fee, xReserveOk,
                                        settledTransfers, usedNonces,
                                        routerBalance)
         IN /\ settledTransfers' = r.settled
            /\ usedNonces' = r.used
            /\ routerBalance' = r.balance
            /\ routerCall' =
                 [called |-> TRUE, message |-> message, fee |-> fee,
                  xReserveOk |-> xReserveOk, received |-> received,
                  before |-> [settled |-> settledTransfers, used |-> usedNonces,
                              balance |-> routerBalance],
                  result |-> r,
                  earlier |-> routerCall.succeeded,
                  succeeded |->
                      IF r.ok
                      THEN routerCall.succeeded
                               \cup {<<message.sourceDomain, message.nonce>>}
                      ELSE routerCall.succeeded,
                  recovered |->
                      IF r.ok /\ ~received.ok
                      THEN routerCall.recovered
                               \cup {<<message.sourceDomain, message.nonce>>}
                      ELSE routerCall.recovered]
    /\ UNCHANGED <<store, now, pollerPc, pollerJobs, submitterPc, submitterJob,
                   submitterTx, txs, anyLogs, maxRetries, bucket, pollerWakeAt,
                   validatorCall, classifierCall, shutdown, storeCall>>

\* Messages a third party can hand to the transmitter itself: well-formed,
\* for this domain and for any caller
RouterDirectMessages ==
    {m \in RouterMessages :
        /\ m.length >= MIN_MESSAGE_LENGTH
        /\ m.destinationDomain = ETHEREUM_CCTP_DOMAIN
        /\ m.destinationCaller = BYTES32_ZERO
        /\ m.amount > m.feeExecuted}

-----------------------------------------------------------------------------
(* abis.ts: topic0 of the router events, ethers.id of the signature         *)

RELAYED_TOPIC0 == "Relayed"

FALLBACK_TRIGGERED_TOPIC0 == "FallbackTriggered"

OPERATOR_ROUTED_TOPIC0 == "OperatorRouted"

RECOVERED_FROM_CONSUMED_NONCE_TOPIC0 == "RecoveredFromConsumedNonce"

-----------------------------------------------------------------------------
(* submitter.ts: startSubmitter.loop *)

\* The fields of `job` the iteration reads
submitterView(row) ==
    [txHash |-> row.txHash, attestedMessage |-> row.attestedMessage,
     attestation |-> row.attestation, retryCount |-> row.retryCount]

NoJob == submitterView(RelayJob(<<>>, NullNum, NullNum))

Find(logs, topic0) == \E i \in 1..Len(logs) : logs[i] = topic0

\* Faulty variant of classifyOutcome: only the first log is looked at
classifyOutcomeFirstLog(logs) ==
    IF logs # <<>> /\ logs[1] = RELAYED_TOPIC0 THEN "forwarded"
    ELSE IF logs # <<>> /\ logs[1] = FALLBACK_TRIGGERED_TOPIC0 THEN "fallback"
    ELSE IF logs # <<>> /\ logs[1] = OPERATOR_ROUTED_TOPIC0 THEN "operator_routed"
    ELSE NullText

\* Determine outcome from events
classifyOutcome(logs) ==
    IF Find(logs, RELAYED_TOPIC0) THEN "forwarded"
    ELSE IF Find(logs, FALLBACK_TRIGGERED_TOPIC0) THEN "fallback"
    ELSE IF Find(logs, OPERATOR_ROUTED_TOPIC0) THEN "operator_routed"
    ELSE NullText

\* The classification on its own: receipts of up to MaxLogs logs, each with
\* one of the router's four topics or the topic of another contract's event
OtherTopic0 == "Transfer"

Topics ==
    {RELAYED_TOPIC0, FALLBACK_TRIGGERED_TOPIC0, OPERATOR_ROUTED_TOPIC0,
     RECOVERED_FROM_CONSUMED_NONCE_TOPIC0, OtherTopic0}

LogInputs == UNION {[1..n -> Topics] : n \in 0..MaxLogs}

NoClassifierCall == [logs |-> <<>>, calls |-> 0, outcome |-> NullText]

ClassifierCalls == {[logs |-> l, calls |-> 0, outcome |-> NullText] : l \in LogInputs}

\* The outcome is determined from the logs of a receipt (a first or a
\* repeated time)
Classify ==
    /\ classifierCall.calls < MaxCalls
    /\ classifierCall' =
         [classifierCall EXCEPT !.calls = @ + 1,
                                !.outcome = classifyOutcome(classifierCall.logs)]
    /\ UNCHANGED <<store, now, pollerPc, pollerJobs, submitterPc, submitterJob,
                   submitterTx, txs, settledTransfers, usedNonces, routerBalance,
                   anyLogs, maxRetries, bucket, pollerWakeAt, validatorCall, shutdown, routerCall, storeCall>>

\* Faulty variant of terminal: the list lacks "transfer settled"
terminalNoSettled(message) ==
    \/ Includes(message, "Nonce already used")
    \/ Includes(message, "invalid destinationDomain")
    \/ Includes(message, "invalid destinationCaller")
    \/ Includes(message, "invalid mintRecipient")

terminal(message) ==
    \/ Includes(message, "transfer settled")
    \/ Includes(message, "Nonce already used")
    \/ Includes(message, "invalid destinationDomain")
    \/ Includes(message, "invalid destinationCaller")
    \/ Includes(message, "invalid mintRecipient")

\* Faulty variant of submissionFailed: giving up clears the retry count
submissionFailedClearsCount(s, job, message, t) ==
    IF terminal(message)
    THEN updateJob(s, job.txHash,
                   [status |-> "failed", error |-> message,
                    retryCount |-> job.retryCount + 1], t)
    ELSE LET newRetryCount == job.retryCount + 1 IN
         IF newRetryCount >= maxRetries
         THEN updateJob(s, job.txHash,
                        [status |-> "failed", error |-> message,
                         retryCount |-> 0], t)
         ELSE updateJob(s, job.txHash,
                        [error |-> message, retryCount |-> newRetryCount], t)

\* Faulty variant of submissionFailed: the retry limit is compared with >
submissionFailedOffByOne(s, job, message, t) ==
    IF terminal(message)
    THEN updateJob(s, job.txHash,
                   [status |-> "failed", error |-> message,
                    retryCount |-> job.retryCount + 1], t)
    ELSE LET newRetryCount == job.retryCount + 1 IN
         IF newRetryCount > maxRetries
         THEN updateJob(s, job.txHash,
                        [status |-> "failed", error |-> message,
                         retryCount |-> newRetryCount], t)
         ELSE updateJob(s, job.txHash,
                        [error |-> message, retryCount |-> newRetryCount], t)

\* The catch block of the per-job try: the store it leaves
submissionFailed(s, job, message, t) ==
    IF terminal(message)
    THEN updateJob(s, job.txHash,
                   [status |-> "failed", error |-> message,
                    retryCount |-> job.retryCount + 1], t)
    ELSE LET newRetryCount == job.retryCount + 1 IN
         IF newRetryCount >= maxRetries
         THEN updateJob(s, job.txHash,
                        [status |-> "failed", error |-> message,
                         retryCount |-> newRetryCount], t)
         ELSE updateJob(s, job.txHash,
                        [error |-> message, retryCount |-> newRetryCount], t)

\* Top of the loop: pick the oldest attested job and start the dry-run
SubmitterPick ==
    /\ submitterPc = "top"
    /\ \E job \in getOldestByStatus(store, "attested") :
         /\ submitterJob' = submitterView(job)
         /\ submitterPc' = "estimateGas"
    /\ shutdown.raised => shutdown.submitterCycles < MaxCyclesAfterSignal
    /\ shutdown' = IF shutdown.raised
                   THEN [shutdown EXCEPT !.submitterCycles = @ + 1]
                   ELSE shutdown
    /\ UNCHANGED <<store, now, pollerPc, pollerJobs,
                   submitterTx, txs, settledTransfers, usedNonces,
                   routerBalance, anyLogs, maxRetries, bucket, pollerWakeAt,
                   validatorCall, classifierCall, routerCall, storeCall>>

\* The catch block ran: back to the top of the loop (after the 1 s sleep)
SubmitterFails(message) ==
    /\ store' = submissionFailed(store, submitterJob, message, now)
    /\ submitterPc' = IF catches("submission") THEN "top" ELSE "exited"
    /\ submitterJob' = NoJob
    /\ submitterTx' = NullNum
    /\ UNCHANGED <<now, pollerPc, pollerJobs, txs,
                   settledTransfers, usedNonces, routerBalance, anyLogs, maxRetries, bucket, pollerWakeAt,
                   validatorCall, classifierCall, shutdown, routerCall, storeCall>>

\* estimateGas answers: the simulation of the call on the current ledger
\* state, or an RPC failure
SubmitterEstimateGas(rpcFails, xReserveOk) ==
    /\ submitterPc = "estimateGas"
    /\ LET sim == receiveAndForward(submitterJob.attestedMessage, relayFee, xReserveOk,
                                    settledTransfers, usedNonces, routerBalance)
       IN IF rpcFails
          THEN SubmitterFails(<<"Gas estimation failed: ", "network error">>)
          ELSE IF ~sim.ok
          THEN SubmitterFails(<<"Gas estimation failed: ", "execution reverted: ",
                                sim.reason>>)
          ELSE /\ submitterPc' = "send"
               /\ UNCHANGED <<store, now, pollerPc, pollerJobs,
                              submitterJob, submitterTx, txs,
                              settledTransfers, usedNonces, routerBalance, anyLogs, maxRetries, bucket, pollerWakeAt,
                   validatorCall, classifierCall, shutdown, routerCall, storeCall>>

PendingTx(message, fee) ==
    [message |-> message, relayFee |-> fee, state |-> "pending",
     logs |-> <<>>, blockNumber |-> NullNum]

\* Faulty variant of SubmitterSent: the wait starts before the row is updated
SubmitterSentWaitsFirst ==
    /\ submitterPc = "send"
    /\ txs' = Append(txs, PendingTx(submitterJob.attestedMessage, relayFee))
    /\ submitterTx' = Len(txs) + 1
    /\ submitterPc' = "wait"
    /\ UNCHANGED <<store, now, pollerPc, pollerJobs,
                   submitterJob, settledTransfers, usedNonces, routerBalance,
                   anyLogs, maxRetries, bucket, pollerWakeAt,
                   validatorCall, classifierCall, shutdown, routerCall, storeCall>>

\* The broadcast answers with the transaction: persist submitted, then wait
SubmitterSent ==
    /\ submitterPc = "send"
    /\ txs' = Append(txs, PendingTx(submitterJob.attestedMessage, relayFee))
    /\ store' = updateJob(store, submitterJob.txHash,
                          [ethTxHash |-> Len(txs) + 1, status |-> "submitted",
                           submittedAt |-> now], now)
    /\ submitterTx' = Len(txs) + 1
    /\ submitterPc' = "wait"
    /\ UNCHANGED <<now, pollerPc, pollerJobs, 
                   submitterJob, settledTransfers, usedNonces, routerBalance,
                   anyLogs, maxRetries, bucket, pollerWakeAt,
                   validatorCall, classifierCall, shutdown, routerCall, storeCall>>

\* The broadcast throws (the node refused the transaction, or the RPC failed)
SubmitterSendFails ==
    /\ submitterPc = "send"
    /\ SubmitterFails(<<"network error">>)

\* Receipt logs the RPC may hand to the submitter for a successful transaction
ReceiptLogs(tx) ==
    IF anyLogs
    THEN {<<>>, <<RECOVERED_FROM_CONSUMED_NONCE_TOPIC0>>, <<RELAYED_TOPIC0>>,
          <<FALLBACK_TRIGGERED_TOPIC0>>, <<OPERATOR_ROUTED_TOPIC0>>,
          <<OPERATOR_ROUTED_TOPIC0, FALLBACK_TRIGGERED_TOPIC0>>,
          <<FALLBACK_TRIGGERED_TOPIC0, RELAYED_TOPIC0>>}
    ELSE {tx.logs}

\* tx.wait(1) answers with the receipt of the mined transaction
SubmitterReceipt ==
    /\ submitterPc = "wait"
    /\ txs[submitterTx].state \in {"success", "reverted"}
    /\ IF txs[submitterTx].state = "reverted"
       THEN SubmitterFails(<<"Tx reverted: ", ToString(submitterTx)>>)
       ELSE /\ \E logs \in ReceiptLogs(txs[submitterTx]) :
                 store' = updateJob(store, submitterJob.txHash,
                                    [ethBlockNumber |-> txs[submitterTx].blockNumber,
                                     confirmedAt |-> now,
                                     outcome |-> classifyOutcome(logs),
                                     status |-> "confirmed"], now)
            /\ submitterPc' = "top"
            /\ submitterJob' = NoJob
            /\ submitterTx' = NullNum
            /\ UNCHANGED <<now, pollerPc, pollerJobs, txs,
                           settledTransfers, usedNonces, routerBalance, anyLogs, maxRetries, bucket, pollerWakeAt,
                   validatorCall, classifierCall, shutdown, routerCall, storeCall>>

\* tx.wait(1) throws (RPC failure while polling for the receipt)
SubmitterWaitFails ==
    /\ submitterPc = "wait"
    /\ SubmitterFails(<<"network error">>)

\* The store update of the catch block throws after a failed dry-run,
\* broadcast or wait: the outer catch, then the top of the loop
SubmitterStoreFails ==
    /\ submitterPc \in {"estimateGas", "send", "wait"}
    /\ submitterPc' = IF catches("iteration") THEN "top" ELSE "exited"
    /\ submitterJob' = NoJob
    /\ submitterTx' = NullNum
    /\ UNCHANGED <<store, now, pollerPc, pollerJobs, txs,
                   settledTransfers, usedNonces, routerBalance, anyLogs, maxRetries, bucket, pollerWakeAt,
                   validatorCall, classifierCall, shutdown, routerCall, storeCall>>

-----------------------------------------------------------------------------
(* Environment: destination ledger, clock, process *)

MinedCount == Cardinality({i \in 1..Len(txs) : txs[i].state # "pending"})

\* A broadcast transaction is mined: the router call executes
Mine(i, xReserveOk) ==
    /\ i \in 1..Len(txs)
    /\ txs[i].state = "pending"
    /\ LET r == receiveAndForward(txs[i].message, txs[i].relayFee, xReserveOk,
                                  settledTransfers, usedNonces, routerBalance)
       IN /\ txs' = [txs EXCEPT ![i] =
                        [@ EXCEPT !.state = IF r.ok THEN "success" ELSE "reverted",
                                  !.logs = r.logs,
                                  !.blockNumber = MinedCount + 1]]
          /\ settledTransfers' = r.settled
          /\ usedNonces' = r.used
          /\ routerBalance' = r.balance
    /\ UNCHANGED <<store, now, pollerPc, pollerJobs, 
                   submitterPc, submitterJob, submitterTx, anyLogs, maxRetries, bucket, pollerWakeAt,
                   validatorCall, classifierCall, shutdown, routerCall, storeCall>>

\* Messages attested upstream that other parties may relay themselves
PublicMessages == {Message(400, 3, 0, 1, routerBytes32, routerBytes32, 2, 0, "params")}

\* Another relayer calls the permissionless receiveAndForward
ThirdPartyRelay(message, xReserveOk) ==
    /\ LET r == receiveAndForward(message, 0, xReserveOk,
                                  settledTransfers, usedNonces, routerBalance)
       IN /\ r.ok
          /\ settledTransfers' = r.settled
          /\ usedNonces' = r.used
          /\ routerBalance' = r.balance
    /\ UNCHANGED <<store, now, pollerPc, pollerJobs, 
                   submitterPc, submitterJob, submitterTx, txs, anyLogs, maxRetries, bucket, pollerWakeAt,
                   validatorCall, classifierCall, shutdown, routerCall, storeCall>>

\* Messages any caller may hand to the MessageTransmitter (destinationCaller 0)
DirectMessages == {Message(400, 3, 0, 2, BYTES32_ZERO, routerBytes32, 2, 0, "empty")}

\* Another party calls MessageTransmitter.receiveMessage directly: the nonce
\* is consumed and the USDC is minted to the router without being routed
DirectReceive(message) ==
    /\ LET r == receiveMessage(message, usedNonces, routerBalance)
       IN /\ r.ok
          /\ usedNonces' = r.used
          /\ routerBalance' = r.balance
    /\ UNCHANGED <<store, now, pollerPc, pollerJobs, submitterPc, submitterJob,
                   submitterTx, txs, settledTransfers, anyLogs, maxRetries, bucket, pollerWakeAt,
                   validatorCall, classifierCall, shutdown, routerCall, storeCall>>

\* The clock advances
Tick ==
    /\ now < MaxClock
    /\ now' = now + 1
    /\ UNCHANGED <<store, pollerPc, pollerJobs, 
                   submitterPc, submitterJob, submitterTx, txs,
                   settledTransfers, usedNonces, routerBalance, anyLogs, maxRetries, bucket, pollerWakeAt,
                   validatorCall, classifierCall, shutdown, routerCall, storeCall>>

\* The process is stopped and started again (index.ts): the loops start at
\* their top with nothing in memory; the table and the ledger persist.
Restart ==
    /\ pollerPc # "top" \/ submitterPc # "top"
    /\ pollerPc' = "top"
    /\ pollerJobs' = <<>>
    /\ submitterPc' = "top"
    /\ submitterJob' = NoJob
    /\ submitterTx' = NullNum
    /\ pollerWakeAt' = NullNum
    /\ UNCHANGED <<store, now, txs, settledTransfers,
                   usedNonces, routerBalance, anyLogs, maxRetries, bucket,
                   validatorCall, classifierCall, shutdown, routerCall, storeCall>>

\* No SIGINT/SIGTERM received
NotShutDown == [raised |-> FALSE, pollerCycles |-> 0, submitterCycles |-> 0]

\* SIGINT or SIGTERM arrives: shutdown() closes the HTTP server and arms the
\* 10 s timer; nothing is told to the two loops
ShutdownSignal ==
    /\ ~shutdown.raised
    /\ shutdown' = [shutdown EXCEPT !.raised = TRUE]
    /\ UNCHANGED <<store, now, pollerPc, pollerJobs, submitterPc, submitterJob,
                   submitterTx, txs, settledTransfers, usedNonces, routerBalance,
                   anyLogs, maxRetries, bucket, pollerWakeAt, validatorCall,
                   classifierCall, routerCall, storeCall>>

\* process.exit, from the callback of server.close once the last connection
\* has ended or from the 10 s timer: the loops end wherever they stand.  The
\* process is then started again.
ProcessExit ==
    /\ shutdown.raised
    /\ shutdown' = NotShutDown
    /\ pollerPc' = "top"
    /\ pollerJobs' = <<>>
    /\ submitterPc' = "top"
    /\ submitterJob' = NoJob
    /\ submitterTx' = NullNum
    /\ pollerWakeAt' = NullNum
    /\ UNCHANGED <<store, now, txs, settledTransfers, usedNonces, routerBalance,
                   anyLogs, maxRetries, bucket, validatorCall, classifierCall, routerCall, storeCall>>

-----------------------------------------------------------------------------
(* Specifications *)

InitProgram ==
    /\ store = <<>>
    /\ now = 0
    /\ pollerPc = "top"
    /\ pollerJobs = <<>>
    /\ submitterPc = "top"
    /\ submitterJob = NoJob
    /\ submitterTx = NullNum
    /\ txs = <<>>
    /\ settledTransfers = {}
    /\ usedNonces = {}
    /\ routerBalance = 0
    /\ bucket = NewBucket
    /\ pollerWakeAt = NullNum
    /\ shutdown = NotShutDown

InitCommon ==
    /\ InitProgram
    /\ validatorCall = NoValidatorCall
    /\ classifierCall = NoClassifierCall
    /\ routerCall = NoRouterCall
    /\ storeCall = NoStoreCall

Init == InitCommon /\ anyLogs = FALSE /\ maxRetries = MaxRetries

InitAnyLogs == InitCommon /\ anyLogs = TRUE /\ maxRetries = MaxRetries

\* MAX_RETRIES is parsed without a range check: any count from 0 up
InitAnyRetries == InitCommon /\ anyLogs = FALSE /\ maxRetries \in 0..MaxRetries

Intake(bodies) == \E body \in bodies : PostRelay(body)

\* The poller loop; with attestedOnly the upstream has every attestation ready
Poller(attestedOnly) ==
    \/ PollerCycle
    \/ /\ pollerPc = "fetch"
       /\ \E response \in UpstreamResponses(Head(pollerJobs).sourceDomain) :
            /\ attestedOnly => Attested(response)
            /\ PollerResponse(response)

Submitter ==
    \/ SubmitterPick
    \/ \E rpcFails \in BOOLEAN, xReserveOk \in BOOLEAN :
         SubmitterEstimateGas(rpcFails, xReserveOk)
    \/ SubmitterSent
    \/ SubmitterSendFails
    \/ SubmitterReceipt
    \/ SubmitterWaitFails

Ledger ==
    \/ \E i \in 1..Len(txs), xReserveOk \in BOOLEAN : Mine(i, xReserveOk)
    \/ \E message \in PublicMessages, xReserveOk \in BOOLEAN :
         ThirdPartyRelay(message, xReserveOk)
    \/ \E message \in DirectMessages : DirectReceive(message)

\* One burn transaction through its whole life, with the clock
Next == Intake(OneBurnBodies) \/ Poller(FALSE) \/ PollerWake \/ Submitter \/ Ledger \/ Tick \/ Restart

Spec == Init /\ [][Next]_vars

\* As Spec, with receipts that may carry any set of the known topics
SpecAnyLogs == InitAnyLogs /\ [][Next]_vars

\* As Spec, for every MAX_RETRIES
SpecAnyRetries == InitAnyRetries /\ [][Next]_vars

\* The loops keep running while the process is up, and a broadcast
\* transaction is mined in the end
Fairness ==
    /\ WF_vars(Poller(FALSE))
    /\ WF_vars(Submitter)
    /\ WF_vars(\E i \in 1..Len(txs), xReserveOk \in BOOLEAN : Mine(i, xReserveOk))

SpecLive == Init /\ [][Next]_vars /\ Fairness

\* Intake and poller only, two burn transactions, with the clock; the poller
\* loop keeps running and the clock keeps advancing
NextPoller == Intake(RequestBodies) \/ Poller(FALSE) \/ PollerWake \/ Tick \/ Restart

SpecPollerLive ==
    Init /\ [][NextPoller]_vars
         /\ WF_vars(Poller(FALSE)) /\ WF_vars(PollerWake) /\ WF_vars(Tick)

\* Intake and poller only, two burn transactions, with the clock, in one
\* run of the process
NextPollerRun == Intake(RequestBodies) \/ Poller(FALSE) \/ PollerWake \/ Tick

SpecPollerRun == Init /\ [][NextPollerRun]_vars


\* Two burn transactions created at different instants, the poller with an
\* upstream that has every attestation ready, and the submitter up to the
\* receipt wait; nothing is mined
NextSubmitterOrder ==
    \/ Intake(RequestBodies)
    \/ Poller(TRUE)
    \/ PollerWake
    \/ SubmitterPick
    \/ \E rpcFails \in BOOLEAN, xReserveOk \in BOOLEAN :
         SubmitterEstimateGas(rpcFails, xReserveOk)
    \/ SubmitterSent
    \/ SubmitterSendFails
    \/ SubmitterWaitFails
    \/ Tick

SpecSubmitterOrder == Init /\ [][NextSubmitterOrder]_vars


\* The Store alone: createJob and updateJob called with any of the arguments
NextStore ==
    \/ \E h \in StoreHashes : StoreCreate(RelayJob(h, 3, now))
    \/ \E h \in StoreHashes, k \in 1..Len(StoreUpdates) : StoreUpdate(h, k)
    \/ Tick

SpecStore == Init /\ [][NextStore]_vars

\* The token bucket alone, with callers that may be pending together
NextBucket ==
    \/ \E c \in Callers : AcquireCall(c)
    \/ \E c \in Callers : AcquireWake(c)
    \/ Tick

SpecBucket == Init /\ [][NextBucket]_vars

\* Two burn transactions side by side, at one instant of the clock
NextTwoJobs == Intake(RequestBodies) \/ Poller(TRUE) \/ Submitter \/ Ledger \/ Restart

SpecTwoJobs == Init /\ [][NextTwoJobs]_vars

\* One burn transaction through its whole life while a shutdown may be
\* signalled
NextShutdown ==
    \/ Intake(OneBurnBodies) \/ Poller(FALSE) \/ PollerWake \/ Submitter \/ Ledger
    \/ Tick \/ ShutdownSignal \/ ProcessExit

SpecShutdown == Init /\ [][NextShutdown]_vars

\* Two burn transactions at one instant of the clock, with store operations
\* that may throw
NextFailures ==
    \/ Intake(RequestBodies) \/ Poller(FALSE) \/ Submitter
    \/ /\ pollerPc = "fetch"
       /\ \E response \in UpstreamResponses(Head(pollerJobs).sourceDomain) :
            PollerStoreFails(response)
    \/ SubmitterStoreFails
    \/ \E i \in 1..Len(txs), xReserveOk \in BOOLEAN : Mine(i, xReserveOk)
    \/ Restart

SpecFailures == Init /\ [][NextFailures]_vars

\* The router and the transmitter called by anyone
NextRouter ==
    \/ \E message \in RouterMessages, fee \in RelayFees, xReserveOk \in BOOLEAN :
         RouterCall(message, fee, xReserveOk)
    \/ \E message \in RouterDirectMessages : DirectReceive(message)

SpecRouter == Init /\ [][NextRouter]_vars

\* validateAttestedMessage alone, on each of its inputs
InitValidator ==
    /\ InitProgram /\ anyLogs = FALSE /\ maxRetries = MaxRetries
    /\ validatorCall \in ValidatorCalls
    /\ routerCall = NoRouterCall
    /\ storeCall = NoStoreCall
    /\ classifierCall = NoClassifierCall

SpecValidator == InitValidator /\ [][Validate]_vars

\* The outcome classification alone, on each receipt
InitClassifier ==
    /\ InitProgram /\ anyLogs = FALSE /\ maxRetries = MaxRetries
    /\ validatorCall = NoValidatorCall
    /\ classifierCall \in ClassifierCalls
    /\ routerCall = NoRouterCall
    /\ storeCall = NoStoreCall

SpecClassifier == InitClassifier /\ [][Classify]_vars

-----------------------------------------------------------------------------
(* Properties *)

Rows == 1..Len(store)

Terminal == {"confirmed", "failed"}

\* C1: every change of a job's stored status, by the intake, the poller or the
\* submitter, is pending->polling, polling->attested, attested->submitted,
\* submitted->confirmed, X->failed from a non-terminal X, or the re-entry into
\* attested of a job whose submission failed transiently; no other step moves
\* a job back in pending < polling < attested < submitted < confirmed.  Rows
\* are never removed and a new row starts pending.
StatusGraph ==
    {<<"pending", "polling">>, <<"polling", "attested">>,
     <<"attested", "submitted">>, <<"submitted", "confirmed">>,
     <<"submitted", "attested">>}
    \cup {<<x, "failed">> : x \in {"pending", "polling", "attested", "submitted"}}

C1_StatusStep ==
    /\ Len(store') >= Len(store)
    /\ \A i \in 1..Len(store') :
         IF i \in Rows
         THEN \/ store'[i].status = store[i].status
              \/ <<store[i].status, store'[i].status>> \in StatusGraph
         ELSE store'[i].status = "pending"

C1_StatusGraph == [][C1_StatusStep]_vars

\* C1 witness: a job that failed transiently before was picked again and its
\* transaction was broadcast
C1_Witness ==
    \E i \in Rows :
        /\ store[i].status = "submitted"
        /\ submitterPc = "wait"
        /\ submitterJob.txHash = store[i].txHash
        /\ submitterJob.retryCount >= 1

\* C2: confirmed and failed are absorbing: no step changes any field of a row
\* whose status is confirmed or failed, and no such row is in the batch the
\* poller works on or is the job the submitter works on.
C2_AbsorbingStep ==
    /\ \A i \in Rows :
         store[i].status \in Terminal => i <= Len(store') /\ store'[i] = store[i]
    /\ \A k \in 1..Len(pollerJobs') :
         getJob(store', pollerJobs'[k].txHash).status \notin Terminal
    /\ submitterJob' # NoJob =>
         getJob(store', submitterJob'.txHash).status \notin Terminal

C2_Absorbing == [][C2_AbsorbingStep]_vars

\* C2 witness: the clock moved on after a job was confirmed, with both loops
\* back at their top
C2_Witness ==
    \E i \in Rows :
        /\ store[i].status = "confirmed"
        /\ store[i].updatedAt < now
        /\ pollerPc = "top"
        /\ submitterPc = "top"

\* C3: in every state and for every job, outcome is non-null exactly when
\* status = confirmed, whatever logs the receipt carried.
C3_OutcomeIffConfirmed ==
    \A i \in Rows : store[i].outcome # NullText <=> store[i].status = "confirmed"

\* C4: POST /relay is idempotent on the txHash read without regard to letter
\* case: in every state, a valid POST whose txHash has a row is answered 200
\* with that row's current status and leaves the table as it is; one whose
\* txHash has no row is answered 201 and adds the one row, pending; and no
\* two rows carry the same txHash up to letter case.
UpperChar(c) ==
    CASE c = "a" -> "A"
      [] c = "b" -> "B"
      [] c = "c" -> "C"
      [] c = "d" -> "D"
      [] c = "e" -> "E"
      [] c = "f" -> "F"
      [] OTHER -> c

SameTxHash(g, h) ==
    /\ Len(g) = Len(h)
    /\ \A i \in 1..Len(g) : UpperChar(g[i]) = UpperChar(h[i])

C4_IdempotentIntake ==
    /\ \A i, j \in Rows : SameTxHash(store[i].txHash, store[j].txHash) => i = j
    /\ \A body \in RequestBodies :
         ValidBody(body) =>
           LET r == PostRelayResult(store, body, now)
               had == {i \in Rows : SameTxHash(store[i].txHash, body.txHash)}
           IN IF had # {}
              THEN /\ r.response.code = 200
                   /\ \A i \in had : r.response.status = store[i].status
                   /\ r.store = store
              ELSE /\ r.response.code = 201
                   /\ Len(r.store) = Len(store) + 1
                   /\ SubSeq(r.store, 1, Len(store)) = store
                   /\ SameTxHash(r.store[Len(r.store)].txHash, body.txHash)
                   /\ r.store[Len(r.store)].status = "pending"

\* C4 witness: a row that the loops advanced and that a POST would meet later
C4_Witness ==
    \E i \in Rows :
        /\ store[i].status = "attested"
        /\ store[i].updatedAt < now
        /\ \E body \in OneBurnBodies :
             /\ ValidBody(body)
             /\ body.txHash # store[i].txHash
             /\ SameTxHash(body.txHash, store[i].txHash)

\* C5: a job left in submitted when the process stops is taken up again
\* after the restart and reaches confirmed, or is requeued as attested: no job
\* stays in submitted forever.
AnySubmitted == \E i \in Rows : store[i].status = "submitted"

C5_SubmittedIsRecovered == AnySubmitted ~> ~AnySubmitted

\* C6: after a transient failure that leaves the incremented retryCount below
\* max_retries the job's status is attested, wherever in the per-job
\* processing the failure occurred.
TerminalSubstrings ==
    {"transfer settled", "Nonce already used", "invalid destinationDomain",
     "invalid destinationCaller", "invalid mintRecipient"}

HasTerminalSubstring(message) == \E x \in TerminalSubstrings : Includes(message, x)

C6_RequeueStep ==
    \A i \in Rows :
        /\ store'[i].retryCount = store[i].retryCount + 1
        /\ store'[i].retryCount < maxRetries
        /\ ~HasTerminalSubstring(store'[i].error)
        => store'[i].status = "attested"

C6_TransientRequeuesAttested == [][C6_RequeueStep]_vars

\* C7 (original): for every job retryCount never exceeds max_retries, every
\* failed submission attempt adds exactly 1 to it, a transient failure at
\* max_retries - 1 sets failed, and every attempt starts below max_retries (so
\* a job undergoes at most max_retries attempts).
FailedAttemptStep ==
    /\ submitterPc # "top"
    /\ submitterPc' = "top"
    /\ ~Restart
    /\ getJob(store', submitterJob.txHash).status # "confirmed"

C7_RetryStep ==
    /\ \A i \in Rows :
         /\ store[i].retryCount <= maxRetries
         /\ store'[i].retryCount <= maxRetries
         /\ store'[i].retryCount \in {store[i].retryCount, store[i].retryCount + 1}
         /\ store[i].retryCount = maxRetries - 1
              /\ store'[i].retryCount = store[i].retryCount + 1
            => store'[i].status = "failed"
    /\ FailedAttemptStep =>
         getJob(store', submitterJob.txHash).retryCount
            = getJob(store, submitterJob.txHash).retryCount + 1
    /\ submitterJob' # NoJob => submitterJob'.retryCount < maxRetries

C7_RetriesBounded == [][C7_RetryStep]_vars

\* C7 (amended): the same, for every configuration with max_retries >= 1.
C7_RetriesBoundedFromOne == [][maxRetries >= 1 => C7_RetryStep]_vars

\* C7 witness: a job failed by using up two or more attempts on transient
\* failures
C7_Witness ==
    \E i \in Rows :
        /\ maxRetries >= 2
        /\ store[i].status = "failed"
        /\ store[i].retryCount = maxRetries
        /\ ~HasTerminalSubstring(store[i].error)

\* C8: a submission failure whose message contains a terminal substring sets
\* the job to failed with error = that message and retryCount + 1, whatever
\* the retryCount; afterwards the row never changes and no transaction is
\* broadcast for it.
TerminalMessages ==
    {<<x>> : x \in TerminalSubstrings}
    \cup {<<"Gas estimation failed: ", "execution reverted: ", x>> :
            x \in TerminalSubstrings}

C8_TerminalStep ==
    /\ submitterJob # NoJob =>
         \A message \in TerminalMessages :
             LET row == getJob(submissionFailed(store, submitterJob, message, now),
                               submitterJob.txHash)
             IN /\ row.status = "failed"
                /\ row.error = message
                /\ row.retryCount = submitterJob.retryCount + 1
    /\ \A i \in Rows :
         /\ store'[i].retryCount = store[i].retryCount + 1
              /\ HasTerminalSubstring(store'[i].error)
            => store'[i].status = "failed"
         /\ store[i].status = "failed" /\ HasTerminalSubstring(store[i].error)
            => /\ store'[i] = store[i]
               /\ Len(txs') > Len(txs) => submitterJob.txHash # store[i].txHash

C8_TerminalFailure == [][C8_TerminalStep]_vars

\* C8 witness: a job failed by a terminal revert on its first failure, below
\* the retry limit
C8_Witness ==
    \E i \in Rows :
        /\ store[i].status = "failed"
        /\ HasTerminalSubstring(store[i].error)
        /\ store[i].retryCount = 1
        /\ store[i].retryCount < maxRetries

\* C9: a revert with reason "invalid fee" is terminal: the failure that
\* records it sets the job to failed.
C9_InvalidFeeStep ==
    \A i \in Rows :
        /\ store'[i].retryCount = store[i].retryCount + 1
        /\ Includes(store'[i].error, "invalid fee")
        => store'[i].status = "failed"

C9_InvalidFeeIsTerminal == [][C9_InvalidFeeStep]_vars

\* C10: no two distinct jobs with the same sourceDomain and the same
\* attestation nonce are both confirmed.
C10_OneConfirmedPerNonce ==
    \A i, j \in Rows :
        /\ store[i].status = "confirmed"
        /\ store[j].status = "confirmed"
        /\ store[i].sourceDomain = store[j].sourceDomain
        /\ store[i].irisNonce = store[j].irisNonce
        => i = j

\* C10 witness: of two jobs attested with one nonce, one is confirmed and the
\* other was refused by the contract's replay guard
C10_Witness ==
    \E i, j \in Rows :
        /\ i # j
        /\ store[i].sourceDomain = store[j].sourceDomain
        /\ store[i].irisNonce = store[j].irisNonce
        /\ store[i].status = "confirmed"
        /\ store[j].status = "failed"
        /\ Includes(store[j].error, "transfer settled")

\* C11: in every execution of the token bucket, with any number of callers
\* pending at once, the acquire() calls that return within a window of
\* length T number at most B + R * T.
ReturnsIn(t1, t2) ==
    Cardinality({i \in 1..Len(bucket.returns) :
                    t1 <= bucket.returns[i] /\ bucket.returns[i] <= t2})

C11_RateLaw ==
    \A t1 \in 0..MaxClock, t2 \in 0..MaxClock :
        t1 <= t2 => ReturnsIn(t1, t2) <= maxTokens + refillRate * (t2 - t1)

\* C12: a pending or polling job the poller examines with
\* now - createdAt > attestation_timeout is set to failed with error
\* attestation_timeout, gets no upstream call and keeps its pollAttempts; one
\* examined with now - createdAt <= attestation_timeout is not failed for
\* timeout in that step.
TimeoutError == <<"attestation_timeout">>

C12_Examined(i) ==
    LET r == pollerStart(store, pollerView(store[i]), now)
        row == getJob(r.store, store[i].txHash)
    IN IF now - store[i].createdAt > AttestationTimeoutMs
       THEN /\ row.status = "failed"
            /\ row.error = TimeoutError
            /\ row.pollAttempts = store[i].pollAttempts
            /\ ~r.fetch
       ELSE /\ row.status = "polling"
            /\ row.error = store[i].error
            /\ r.fetch

C12_TimeoutStep ==
    \A i \in Rows :
        /\ store[i].status \in {"pending", "polling"} => C12_Examined(i)
        /\ store'[i].error = TimeoutError /\ store[i].error # TimeoutError
           => /\ now - store[i].createdAt > AttestationTimeoutMs
              /\ store[i].status \in {"pending", "polling"}
              /\ store'[i].status = "failed"
              /\ store'[i].pollAttempts = store[i].pollAttempts
              /\ \A k \in 1..Len(pollerJobs') :
                    pollerJobs'[k].txHash # store[i].txHash

C12_AttestationTimeout == [][C12_TimeoutStep]_vars

\* C12 witness: a job that was polled without result and later failed for
\* timeout
C12_Witness ==
    \E i \in Rows :
        /\ store[i].status = "failed"
        /\ store[i].error = TimeoutError
        /\ store[i].pollAttempts >= 1

\* C13: with the poller loop and the clock running, every job eventually
\* leaves {pending, polling}, whatever the upstream answers and wherever the
\* process is restarted.  The clock of the model ends at MaxClock, so the
\* jobs in question are those whose deadline lies before that.
BurnHashes ==
    {toLowerCase(body.txHash) : body \in {b \in RequestBodies : ValidBody(b)}}

Waiting(h) ==
    /\ HasJob(store, h)
    /\ getJob(store, h).status \in {"pending", "polling"}
    /\ getJob(store, h).createdAt + AttestationTimeoutMs < MaxClock

Throttled == [http |-> 429, messages |-> <<>>]

C14_ThrottleStep ==
    /\ pollerPc = "fetch" =>
          LET r == pollerAfter(store, pollerJobs, Throttled, now) IN
          /\ r.store = store
          /\ r.jobs = <<>>
          /\ r.backoff
    /\ pollerPc = "fetch" /\ pollerPc' = "backoff" =>
          /\ store' = store
          /\ pollerJobs' = <<>>
          /\ pollerWakeAt' = now + RateLimitBackoffMs
    /\ pollerPc = "backoff" =>
          /\ pollerPc' \in {"backoff", "top"}
          /\ pollerPc' = "backoff" => pollerWakeAt' = pollerWakeAt /\ pollerJobs' = <<>>
          /\ pollerPc' = "top" => now >= pollerWakeAt /\ store' = store
    /\ pollerPc' = "fetch" => pollerPc \in {"top", "fetch"}

C14_ThrottlingAdvancesNoJob == [][C14_ThrottleStep]_vars

\* C14 witness: the first of two queued jobs was throttled on its first poll;
\* the loop sleeps, the second job is still pending and no poll was counted
C14_Witness ==
    /\ pollerPc = "backoff"
    /\ now < pollerWakeAt
    /\ Len(store) = 2
    /\ store[1].status = "polling"
    /\ store[2].status = "pending"
    /\ store[2].createdAt < pollerWakeAt - RateLimitBackoffMs
    /\ \A i \in Rows : store[i].pollAttempts = 0

\* C15: at every moment at most one transaction broadcast by the submitter
\* is unresolved (broadcast, and neither mined with success nor reverted)
Unresolved == {i \in 1..Len(txs) : txs[i].state = "pending"}

C15_OneUnresolvedTx == Cardinality(Unresolved) <= 1

\* C16: no step lowers the pollAttempts or the retryCount of a job, although
\* the poller and the submitter write them as snapshot + 1
C16_CountersStep ==
    \A i \in Rows :
        /\ i <= Len(store')
        /\ store'[i].pollAttempts >= store[i].pollAttempts
        /\ store'[i].retryCount >= store[i].retryCount

C16_CountersMonotone == [][C16_CountersStep]_vars

\* C16 witness: a job was polled twice (not ready, then attested) and its
\* submission failed twice
C16_Witness ==
    \E i \in Rows :
        /\ store[i].pollAttempts = 2
        /\ store[i].retryCount = 2

\* C17: with a clock that never goes back, every job has
\* createdAt <= updatedAt, and createdAt <= attestedAt <= submittedAt <=
\* confirmedAt for those that are set; every step that changes or creates a
\* row leaves its updatedAt at the time of the step; and attestedAt,
\* submittedAt and confirmedAt, once set, are never written again.
Stamps(row) ==
    LET all == <<row.createdAt, row.attestedAt, row.submittedAt, row.confirmedAt>>
    IN SelectSeq(all, LAMBDA x : x # NullNum)

TimestampOrder(row) ==
    /\ row.createdAt # NullNum
    /\ row.updatedAt >= row.createdAt
    /\ \A k \in 1..(Len(Stamps(row)) - 1) : Stamps(row)[k] <= Stamps(row)[k + 1]

C17_TimestampStep ==
    /\ now' >= now
    /\ \A i \in 1..Len(store') :
          /\ TimestampOrder(store'[i])
          /\ (i > Len(store) \/ store'[i] # store[i]) => store'[i].updatedAt = now'
    /\ \A i \in Rows :
          /\ i <= Len(store')
          /\ store[i].attestedAt # NullNum => store'[i].attestedAt = store[i].attestedAt
          /\ store[i].submittedAt # NullNum => store'[i].submittedAt = store[i].submittedAt
          /\ store[i].confirmedAt # NullNum => store'[i].confirmedAt = store[i].confirmedAt

C17_Timestamps == [][C17_TimestampStep]_vars

\* C17 witness: a job confirmed at a later instant than it was submitted,
\* and attested at a later instant than it was created
C17_Witness ==
    \E i \in Rows :
        /\ store[i].status = "confirmed"
        /\ store[i].createdAt < store[i].attestedAt
        /\ store[i].submittedAt < store[i].confirmedAt
        /\ store[i].updatedAt = store[i].confirmedAt

\* C18: every message of 247 bytes or less is refused as 'message too short'
\* whatever its content, and every message of exactly 248 bytes with
\* destinationDomain 0, a destinationCaller that is zero or the router's
\* bytes32, and the router address in the low 20 bytes of mintRecipient is
\* accepted.
AddressTexts == {{"router", "Router", "ROUTER"}, {"other", "Other"}, {"zero"}}

SameAddress(a, b) == \E texts \in AddressTexts : a \in texts /\ b \in texts

SameBytes32(x, y) == x.high = y.high /\ SameAddress(x.low, y.low)

WellFormed(call) ==
    /\ call.message.destinationDomain = 0
    /\ \/ call.message.destinationCaller = BYTES32_ZERO
       \/ SameBytes32(call.message.destinationCaller, call.router32)
    /\ SameAddress(call.message.mintRecipient.low, call.router)

C18_LengthBoundary ==
    validatorCall.calls >= 1 =>
        /\ validatorCall.message.length <= 247 =>
              /\ ~validatorCall.result.valid
              /\ validatorCall.result.reason = <<"message too short">>
        /\ validatorCall.message.length = 248 /\ WellFormed(validatorCall) =>
              validatorCall.result.valid

\* C18 witness: a message of exactly 248 bytes with non-zero upper bytes in
\* mintRecipient was accepted
C18_Witness ==
    /\ validatorCall.calls >= 1
    /\ validatorCall.message.length = 248
    /\ validatorCall.message.mintRecipient.high = 1
    /\ validatorCall.result.valid

\* C19: the result of validateAttestedMessage depends on its arguments only
\* (a repeated call returns the same); it accepts exactly the messages of
\* 248 bytes or more with destinationDomain 0, a destinationCaller that is
\* zero or the router's bytes32 in whatever case that is written, and the
\* router address in the low 20 bytes of mintRecipient; a refusal carries the
\* reason of the first failing check in the order length, destination
\* domain, destinationCaller, mintRecipient; an acceptance returns the
\* mintRecipient address, destinationDomain 0 and the amount of the message.
CallerAllowed(call) ==
    \/ call.message.destinationCaller = BYTES32_ZERO
    \/ SameBytes32(call.message.destinationCaller, call.router32)

FirstFailingCheck(call) ==
    IF call.message.length < 248 THEN "message too short"
    ELSE IF call.message.destinationDomain # 0 THEN "destination domain "
    ELSE IF ~CallerAllowed(call) THEN "destinationCaller "
    ELSE IF ~SameAddress(call.message.mintRecipient.low, call.router)
    THEN "mintRecipient "
    ELSE "none"

C19_Result(call) ==
    /\ call.result.valid <=> (call.message.length >= 248 /\ WellFormed(call))
    /\ call.result.valid <=> FirstFailingCheck(call) = "none"
    /\ ~call.result.valid =>
          /\ call.result.reason # NullError
          /\ call.result.reason[1] = FirstFailingCheck(call)
    /\ call.result.valid =>
          /\ SameAddress(call.result.mintRecipient, call.message.mintRecipient.low)
          /\ call.result.destinationDomain = 0
          /\ call.result.amount = call.message.amount

C19_ValidatorStep ==
    /\ validatorCall'.calls >= 1 => C19_Result(validatorCall')
    /\ validatorCall.calls >= 1 => validatorCall'.result = validatorCall.result
    /\ validatorCall'.message = validatorCall.message

C19_ValidatorIsPure == [][C19_ValidatorStep]_vars

\* C19 witness: a message whose destinationCaller is the router was accepted
\* twice for a router bytes32 written in upper case
C19_Witness ==
    /\ validatorCall.calls = 2
    /\ validatorCall.router32.low = "ROUTER"
    /\ validatorCall.message.destinationCaller = routerBytes32
    /\ validatorCall.result.valid
    /\ validatorCall.result.amount = 2

\* C20: the outcome is a function of the set of topics in the receipt,
\* whatever the order and the number of the logs: forwarded when Relayed is
\* there, fallback when FallbackTriggered is the only one of the three
\* routing topics, operator_routed when OperatorRouted is the only one, a
\* fixed outcome when several are there; a RecoveredFromConsumedNonce log
\* more or less changes nothing.
TopicSet(logs) == {logs[i] : i \in 1..Len(logs)}

RoutingTopics(logs) ==
    TopicSet(logs) \cap {RELAYED_TOPIC0, FALLBACK_TRIGGERED_TOPIC0, OPERATOR_ROUTED_TOPIC0}

C20_OutcomeIsSetFunction ==
    classifierCall.calls >= 1 =>
        /\ \A other \in LogInputs :
              TopicSet(other) \ {RECOVERED_FROM_CONSUMED_NONCE_TOPIC0}
                = TopicSet(classifierCall.logs) \ {RECOVERED_FROM_CONSUMED_NONCE_TOPIC0}
              => classifyOutcome(other) = classifierCall.outcome
        /\ RELAYED_TOPIC0 \in TopicSet(classifierCall.logs) =>
              classifierCall.outcome = "forwarded"
        /\ RoutingTopics(classifierCall.logs) = {FALLBACK_TRIGGERED_TOPIC0} =>
              classifierCall.outcome = "fallback"
        /\ RoutingTopics(classifierCall.logs) = {OPERATOR_ROUTED_TOPIC0} =>
              classifierCall.outcome = "operator_routed"

\* C20 witness: Relayed came last, after OperatorRouted and
\* RecoveredFromConsumedNonce, and the outcome is forwarded
C20_Witness ==
    /\ classifierCall.calls >= 1
    /\ classifierCall.logs = <<OPERATOR_ROUTED_TOPIC0,
                               RECOVERED_FROM_CONSUMED_NONCE_TOPIC0, RELAYED_TOPIC0>>
    /\ classifierCall.outcome = "forwarded"

\* C21: whatever the upstream answers to the awaited call, the job becomes
\* attested only on a 200 answer whose first entry is complete with an
\* attestation other than PENDING; on a first entry still PENDING or not
\* complete, an empty messages array, a 404 or another non-2xx answer the
\* job stays polling and none of its attested fields is written.
AwaitedJob == Head(pollerJobs)

AfterAnswer(response) ==
    getJob(pollerHandle(store, AwaitedJob, response, now), AwaitedJob.txHash)

FirstEntryComplete(response) ==
    /\ response.messages # <<>>
    /\ response.messages[1].status = "complete"
    /\ response.messages[1].attestation # "PENDING"

NoAttestedField(row) ==
    /\ row.attestedMessage = NoMessage
    /\ row.attestation = NullText
    /\ row.irisNonce = NullNum
    /\ row.mintRecipient = NullText
    /\ row.destinationDomain = NullNum
    /\ row.amount = NullNum
    /\ row.attestedAt = NullNum

C21_StaysPolling(response) ==
    (\/ response.http = 404
     \/ response.http \notin 200..299
     \/ ~FirstEntryComplete(response))
    => /\ AfterAnswer(response).status = "polling"
       /\ NoAttestedField(AfterAnswer(response))

C21_AttestedOnlyOn200 ==
    pollerPc = "fetch" =>
        \A response \in UpstreamResponses(AwaitedJob.sourceDomain) :
            /\ AfterAnswer(response).status = "attested" =>
                  response.http = 200 /\ FirstEntryComplete(response)
            /\ C21_StaysPolling(response)

\* C21, amended: as above, for any answer with a success status (200-299)
C21_AttestedOnlyOnSuccess ==
    pollerPc = "fetch" =>
        \A response \in UpstreamResponses(AwaitedJob.sourceDomain) :
            /\ AfterAnswer(response).status = "attested" =>
                  response.http \in 200..299 /\ FirstEntryComplete(response)
            /\ C21_StaysPolling(response)

\* C21 witness: a job was polled once without result, stayed polling with
\* no attested field, and its call is awaited again
C21_Witness ==
    /\ pollerPc = "fetch"
    /\ AwaitedJob.pollAttempts = 1
    /\ getJob(store, AwaitedJob.txHash).status = "polling"
    /\ NoAttestedField(getJob(store, AwaitedJob.txHash))

\* C22: a POST /relay whose sourceDomain is not a number of the allow-list
\* (which does not hold the destination domain 0), or whose txHash is not
\* "0x" and 64 hex digits, is answered 400 and leaves the table as it is; an
\* accepted POST for a new txHash appends one row: the txHash in lower case,
\* status pending, both counters 0, every optional field null and
\* createdAt = updatedAt.
HexDigit(c) ==
    \/ c \in {"0", "1", "2", "3", "4", "5", "6", "7", "8", "9"}
    \/ c \in {"a", "b", "c", "d", "e", "f"}
    \/ \E l \in {"a", "b", "c", "d", "e", "f"} : c = UpperChar(l)

WellFormedBody(body) ==
    /\ body.sourceDomainType = "number"
    /\ body.sourceDomain \in VALID_SOURCE_DOMAINS
    /\ body.sourceDomain # 0
    /\ body.txHashType = "string"
    /\ Len(body.txHash) = 2 + HashDigits
    /\ SubSeq(body.txHash, 1, 2) = <<"0", "x">>
    /\ \A i \in 3..Len(body.txHash) : HexDigit(body.txHash[i])

FreshRow(row) ==
    /\ row.status = "pending"
    /\ row.pollAttempts = 0
    /\ row.retryCount = 0
    /\ NoAttestedField(row)
    /\ row.ethTxHash = NullNum
    /\ row.ethBlockNumber = NullNum
    /\ row.outcome = NullText
    /\ row.error = NullError
    /\ row.submittedAt = NullNum
    /\ row.confirmedAt = NullNum
    /\ row.createdAt = now
    /\ row.updatedAt = row.createdAt

C22_IntakeValidation ==
    \A body \in RequestBodies :
        LET r == PostRelayResult(store, body, now) IN
        /\ ~WellFormedBody(body) => r.response.code = 400 /\ r.store = store
        /\ (WellFormedBody(body)
              /\ \A i \in Rows : ~SameTxHash(store[i].txHash, body.txHash)) =>
              /\ r.response.code = 201
              /\ Len(r.store) = Len(store) + 1
              /\ SubSeq(r.store, 1, Len(store)) = store
              /\ LET row == r.store[Len(r.store)] IN
                 /\ SameTxHash(row.txHash, body.txHash)
                 /\ \A i \in 1..Len(row.txHash) :
                       row.txHash[i] \notin {"A", "B", "C", "D", "E", "F", "X"}
                 /\ row.sourceDomain = body.sourceDomain
                 /\ FreshRow(row)

\* C22 witness: a burn was accepted after the clock had advanced and a second
\* one can still be accepted
C22_Witness ==
    /\ Len(store) = 1
    /\ store[1].createdAt >= 1
    /\ store[1].updatedAt = store[1].createdAt
    /\ store[1].status = "pending"
    /\ \E body \in RequestBodies :
          WellFormedBody(body) /\ ~SameTxHash(store[1].txHash, body.txHash)

\* C23: the answer of GET /relay/{txHash} depends on the job's txHash,
\* sourceDomain, status, outcome, error, destination transaction hash and
\* the timestamps createdAt, attestedAt, submittedAt, confirmedAt only: a
\* table that differs in any of the other fields gets the same answer; a
\* txHash that is not stored gets 404.
Hidden ==
    [attestedMessage |-> NoMessage, attestation |-> "hidden", irisNonce |-> 0,
     mintRecipient |-> "hidden", destinationDomain |-> 0, amount |-> 0,
     ethBlockNumber |-> 0, pollAttempts |-> 0, retryCount |-> 0, updatedAt |-> 0]

Overwritten(row) ==
    [f \in DOMAIN row |-> IF f \in DOMAIN Hidden THEN Hidden[f] ELSE row[f]]

OtherStore == [i \in Rows |-> Overwritten(store[i])]

C23_StatusAnswer ==
    \A rawParam \in TxHashInputs :
        /\ GetRelay(store, rawParam) = GetRelay(OtherStore, rawParam)
        /\ GetRelay(store, rawParam).code \in {200, 404}
        /\ TX_HASH_REGEX(rawParam) =>
              /\ (\A i \in Rows : ~SameTxHash(store[i].txHash, rawParam))
                    <=> GetRelay(store, rawParam).code = 404
              /\ \A i \in Rows :
                    SameTxHash(store[i].txHash, rawParam) =>
                        /\ GetRelay(store, rawParam).body.status = store[i].status
                        /\ GetRelay(store, rawParam).body.txHash = store[i].txHash

\* C23 witness: a stored job whose hidden fields all differ from the
\* overwritten ones (attested, polled, retried, updated after the start)
C23_Witness ==
    \E i \in Rows :
        /\ store[i].pollAttempts >= 1
        /\ store[i].retryCount >= 1
        /\ store[i].updatedAt >= 1
        /\ store[i].amount >= 1
        /\ store[i].ethBlockNumber >= 1
        /\ store[i].status = "confirmed"

\* C24: once the shutdown signal is raised, each loop stops at the top of its
\* next iteration: neither starts more than one cycle after the signal
C24_LoopsStopOnShutdown ==
    shutdown.raised =>
        /\ shutdown.pollerCycles <= 1
        /\ shutdown.submitterCycles <= 1

\* C25: whatever fails inside an iteration (the upstream call, a destination
\* call, the validator, a store operation), the failure is caught in that
\* iteration and the loop goes on: neither loop ever ends
C25_LoopsNeverEnd ==
    /\ pollerPc \in {"top", "fetch", "backoff"}
    /\ submitterPc \in {"top", "estimateGas", "send", "wait"}

\* C25 witness: a dry-run failed before, and the submitter has started a new
\* iteration while the poller awaits its next upstream call
C25_Witness ==
    /\ submitterPc = "estimateGas"
    /\ submitterJob.retryCount >= 1
    /\ pollerPc = "fetch"

-----------------------------------------------------------------------------
(* C26 *)

\* The row of the same burn is at the same place after the step, with the
\* same txHash, sourceDomain and createdAt.
KeepsIdentity(i) ==
    /\ i <= Len(store')
    /\ store'[i].txHash = store[i].txHash
    /\ store'[i].sourceDomain = store[i].sourceDomain
    /\ store'[i].createdAt = store[i].createdAt

C26_IdentityStep ==
    /\ \A i \in 1..Len(store) : KeepsIdentity(i)
    /\ TxHashesOf(store) \subseteq TxHashesOf(store')

\* C26: txHash, sourceDomain and createdAt of a job never change after its
\* creation and no step of intake, poller or submitter removes a row: the
\* set of stored txHashes only grows.
C26_IdentityIsImmutable == [][C26_IdentityStep]_vars

\* A row that was created, then updated by poller and submitter at later
\* times until it was confirmed.
C26_Witness ==
    \E i \in 1..Len(store) :
        /\ store[i].status = "confirmed"
        /\ store[i].attestedAt > store[i].createdAt
        /\ store[i].confirmedAt > store[i].attestedAt

-----------------------------------------------------------------------------
(* C27 *)

CallIdentity == <<routerCall.message.sourceDomain, routerCall.message.nonce>>

\* The call is for a transfer identity that an earlier call has settled
Replay == routerCall.called /\ CallIdentity \in routerCall.earlier

\* The requires that precede the settledTransfers guard let the message pass
ReachesGuard(message) ==
    /\ message.length >= MIN_MESSAGE_LENGTH
    /\ message.destinationDomain = ETHEREUM_CCTP_DOMAIN
    /\ message.destinationCaller \in {BYTES32_ZERO, routerBytes32}

\* C27 as stated: after a successful receiveAndForward for a transfer identity
\* (sourceDomain, nonce), every later call whose message carries the same
\* identity reverts with 'transfer settled', whatever its other bytes.
C27_ReplayRevertsSettled ==
    Replay =>
        /\ ~routerCall.result.ok
        /\ routerCall.result.reason = "transfer settled"

\* C27, amended: every later call for a settled identity reverts and leaves
\* the ledger as it was, whatever the other bytes of its message, the
\* transmitter's answer, and the path of the first settlement; the reason is
\* 'transfer settled' when the message passes the length, destinationDomain
\* and destinationCaller checks that precede the guard, and the reason of the
\* first of these checks that fails otherwise.  No identity is settled twice.
C27_ReplayReverts ==
    /\ Replay =>
        /\ ~routerCall.result.ok
        /\ routerCall.result.settled = routerCall.before.settled
        /\ routerCall.result.used = routerCall.before.used
        /\ routerCall.result.balance = routerCall.before.balance
        /\ ReachesGuard(routerCall.message)
              => routerCall.result.reason = "transfer settled"
        /\ ~ReachesGuard(routerCall.message)
              => routerCall.result.reason \in
                    {"message too short", "invalid destinationDomain",
                     "invalid destinationCaller"}
    /\ routerCall.called /\ routerCall.result.ok
          => CallIdentity \notin routerCall.earlier

\* A transfer settled through the consumed-nonce path is called again with
\* other hookData while the router holds USDC, and reverts 'transfer settled'
C27_Witness ==
    /\ Replay
    /\ CallIdentity \in routerCall.recovered
    /\ routerCall.message.hookData = "params"
    /\ routerCall.before.balance >= 2
    /\ routerCall.result.reason = "transfer settled"

-----------------------------------------------------------------------------
(* C28 *)

\* Every require before the mint lets the message pass
PassesChecks(message) ==
    /\ ReachesGuard(message)
    /\ message.mintRecipient = routerBytes32
    /\ message.amount > message.feeExecuted

\* The transmitter answered the router's receiveMessage with the revert
\* "Nonce already used", for a message that passed the checks before
RecoveryCall ==
    /\ routerCall.called
    /\ PassesChecks(routerCall.message)
    /\ CallIdentity \notin routerCall.before.settled
    /\ ~routerCall.received.ok
    /\ routerCall.received.reason = "Nonce already used"

Minted(message) == message.amount - message.feeExecuted

\* The same call on the normal path: the nonce not yet consumed and the mint
\* made by the call itself
NormalPath ==
    receiveAndForward(routerCall.message, routerCall.fee, routerCall.xReserveOk,
                      routerCall.before.settled,
                      routerCall.before.used \ {routerCall.message.nonce},
                      routerCall.before.balance - Minted(routerCall.message))

\* The same call made once more after it returned
CalledAgain ==
    receiveAndForward(routerCall.message, routerCall.fee, routerCall.xReserveOk,
                      routerCall.result.settled, routerCall.result.used,
                      routerCall.result.balance)

\* C28: when the nonce of a message was consumed by a receiveMessage call of
\* a third party, receiveAndForward for that message reverts 'nonce not used'
\* if the transmitter has not recorded the nonce as used and 'insufficient
\* recovered' if the router holds less than amount - feeExecuted; otherwise
\* it does what the normal path does with the same message (same success or
\* revert reason, same transfers, same ledger state after), emits
\* RecoveredFromConsumedNonce(nonce, amount - feeExecuted) before the routing
\* event, and a second call reverts 'transfer settled'.
C28_ConsumedNonceRecovery ==
    RecoveryCall =>
        LET message == routerCall.message
            result == routerCall.result
        IN IF message.nonce \notin routerCall.before.used
           THEN ~result.ok /\ result.reason = "nonce not used"
           ELSE IF routerCall.before.balance < Minted(message)
           THEN ~result.ok /\ result.reason = "insufficient recovered"
           ELSE /\ result.ok = NormalPath.ok
                /\ ~result.ok => result.reason = NormalPath.reason
                /\ result.ok =>
                     /\ result.events =
                          <<Event("RecoveredFromConsumedNonce",
                                  [nonce |-> message.nonce,
                                   amount |-> message.amount
                                                - message.feeExecuted])>>
                          \o NormalPath.events
                     /\ Len(result.events) = 2
                     /\ result.events[2].topic0 \in
                          {"Relayed", "FallbackTriggered", "OperatorRouted"}
                     /\ result.paid = NormalPath.paid
                     /\ Leaving(result.paid) + result.paid[routerAddress]
                          = Minted(message)
                     /\ result.settled = NormalPath.settled
                     /\ result.used = NormalPath.used
                     /\ result.balance = NormalPath.balance
                     /\ ~CalledAgain.ok
                     /\ CalledAgain.reason = "transfer settled"

\* A message with malformed hookData whose nonce a third party consumed was
\* recovered and routed to the operator
C28_Witness ==
    /\ RecoveryCall
    /\ routerCall.result.ok
    /\ routerCall.message.hookData = "malformed"
    /\ routerCall.result.logs = <<"RecoveredFromConsumedNonce", "OperatorRouted">>
    /\ routerCall.result.paid["operator"] = 2

-----------------------------------------------------------------------------
(* C29 *)

\* A call whose message passed every check and whose hookData decodes as
\* ForwardParams
ForwardCall ==
    /\ routerCall.called
    /\ PassesChecks(routerCall.message)
    /\ decodeForwardParams(routerCall.message.hookData).decoded

\* C29: a receiveAndForward call with decodable ForwardParams reverts unless
\* relayFee <= relayMaxFee and relayFee < mintedAmount; on success exactly
\* relayFee is paid to the caller and exactly mintedAmount - relayFee goes to
\* xReserve (Relayed) or to fallbackRecipient (FallbackTriggered), where
\* mintedAmount = amount - feeExecuted; what leaves the router in a
\* successful call is mintedAmount, and on the mint path the router's balance
\* after the call is its balance before.
C29_RelayFeeAccounting ==
    LET message == routerCall.message
        result == routerCall.result
        params == decodeForwardParams(message.hookData)
        mintedAmount == message.amount - message.feeExecuted
        fee == routerCall.fee
    IN /\ ForwardCall /\ result.ok =>
            /\ fee <= params.relayMaxFee
            /\ fee < mintedAmount
            /\ result.logs[Len(result.logs)] \in {"Relayed", "FallbackTriggered"}
            /\ result.logs[Len(result.logs)] = "Relayed" =>
                  result.paid = Pay(Pay(NoTransfers, "caller", fee),
                                    "xReserve", mintedAmount - fee)
            /\ result.logs[Len(result.logs)] = "FallbackTriggered" =>
                  result.paid = Pay(Pay(NoTransfers, "caller", fee),
                                    params.fallbackRecipient, mintedAmount - fee)
       /\ routerCall.called /\ result.ok =>
            /\ Leaving(result.paid) = mintedAmount
            /\ routerCall.received.ok => result.balance = routerCall.before.balance

-----------------------------------------------------------------------------
(* C30 *)

\* The submitter awaits tx.wait(1) for the transaction it has broadcast
AwaitingReceipt == submitterPc = "wait"

\* C30: whenever the submitter awaits the receipt of a transaction, the row
\* of its job already has status submitted, the hash of that transaction as
\* ethTxHash and a submittedAt not later than now: the update is made after
\* the broadcast returned and before the wait starts.
C30_PersistBeforeWait ==
    AwaitingReceipt =>
        /\ submitterTx \in 1..Len(txs)
        /\ HasJob(store, submitterJob.txHash)
        /\ LET row == getJob(store, submitterJob.txHash)
           IN /\ row.status = "submitted"
              /\ row.ethTxHash = submitterTx
              /\ row.submittedAt # NullNum
              /\ row.submittedAt <= now
              /\ txs[submitterTx].message = row.attestedMessage

\* The submitter awaits the receipt of a transaction that is already mined,
\* at an instant after the broadcast
C30_Witness ==
    /\ AwaitingReceipt
    /\ txs[submitterTx].state = "success"
    /\ getJob(store, submitterJob.txHash).submittedAt < now

-----------------------------------------------------------------------------
(* C31 *)

\* An upstream attestation request of the poller is in flight
AwaitingUpstream == pollerPc = "fetch"

\* C31: while an upstream request for a job is in flight the stored status
\* of that job is polling (a job read as pending was persisted as polling
\* before the request), so a stop of the process at that point leaves a row
\* that every later batch of the poller contains.
C31_PersistBeforePoll ==
    AwaitingUpstream =>
        /\ pollerJobs # <<>>
        /\ HasJob(store, Head(pollerJobs).txHash)
        /\ getJob(store, Head(pollerJobs).txHash).status = "polling"
        /\ \A batch \in getJobsByStatus(store, {"pending", "polling"}, 20) :
              \E k \in 1..Len(batch) : batch[k].txHash = Head(pollerJobs).txHash

\* The request in flight is for a job the batch read as pending
C31_Witness ==
    /\ AwaitingUpstream
    /\ Head(pollerJobs).status = "pending"
    /\ getJob(store, Head(pollerJobs).txHash).status = "polling"

-----------------------------------------------------------------------------
(* C32 *)

\* The fields the attested update writes besides status and pollAttempts
AttestedFieldsSet(row) ==
    /\ row.attestedMessage # NoMessage
    /\ row.attestation # NullText
    /\ row.irisNonce # NullNum
    /\ row.mintRecipient # NullText
    /\ row.destinationDomain # NullNum
    /\ row.amount # NullNum
    /\ row.attestedAt # NullNum

AttestedFieldsNull(row) ==
    /\ row.attestedMessage = NoMessage
    /\ row.attestation = NullText
    /\ row.irisNonce = NullNum
    /\ row.mintRecipient = NullText
    /\ row.destinationDomain = NullNum
    /\ row.amount = NullNum
    /\ row.attestedAt = NullNum

-----------------------------------------------------------------------------
(* C33 *)

\* The answer carries a complete attestation as its first entry
CompleteAttestation(response) ==
    /\ ok(response)
    /\ response.messages # <<>>
    /\ response.messages[1].status = "complete"
    /\ response.messages[1].attestation # "PENDING"

\* C33: whenever the upstream answers the request in flight with a complete
\* attestation, the poller leaves the job attested, with a message the
\* validator accepts, or failed with the validator's reason as error; the
\* job does not stay polling.
C33_CompleteAttestationResolves ==
    AwaitingUpstream =>
        \A response \in UpstreamResponses(Head(pollerJobs).sourceDomain) :
            CompleteAttestation(response) =>
                LET job == Head(pollerJobs)
                    row == getJob(pollerHandle(store, job, response, now),
                                  job.txHash)
                    message == response.messages[1].message
                    validation == validateAttestedMessage(message, routerAddress,
                                                          routerBytes32)
                IN /\ row.status \in {"attested", "failed"}
                   /\ row.status = "attested" =>
                         /\ ~getBytesThrows(message)
                         /\ validation.valid
                         /\ row.attestedMessage = message
                   /\ row.status = "failed" =>
                         /\ ~validation.valid
                         /\ row.error = validation.reason

-----------------------------------------------------------------------------
(* C34 *)

\* The row of the job whose request is in flight, before and after an answer
PolledRow == getJob(store, Head(pollerJobs).txHash)

RowAfter(response) ==
    getJob(pollerHandle(store, Head(pollerJobs), response, now),
           Head(pollerJobs).txHash)

\* C34: an answer that is not-found, another non-success but the 429, a body
\* without messages or a first entry still pending adds exactly 1 to the
\* job's pollAttempts and changes no other field but updatedAt; the update
\* that moves a job to attested adds exactly 1 to pollAttempts as well.
C34_PollAttempts ==
    AwaitingUpstream =>
        \A response \in UpstreamResponses(Head(pollerJobs).sourceDomain) :
            /\ NotYet(response) =>
                  RowAfter(response) =
                      [PolledRow EXCEPT !.pollAttempts = @ + 1, !.updatedAt = now]
            /\ RowAfter(response).status = "attested" =>
                  RowAfter(response).pollAttempts = PolledRow.pollAttempts + 1

\* A request is in flight for a job with a counted poll behind it, at a
\* later instant than its creation
C34_Witness ==
    /\ AwaitingUpstream
    /\ PolledRow.pollAttempts = 1
    /\ PolledRow.status = "polling"
    /\ now > PolledRow.createdAt

-----------------------------------------------------------------------------
(* C35 *)

PollerStatuses == {"pending", "polling"}

\* A batch read with LIMIT `limit`: at most `limit` rows, all pending or
\* polling, no row twice, in ascending createdAt order, and no pending or
\* polling row left out is older than a row taken
OldestBatch(batch, limit) ==
    /\ Len(batch) <= limit
    /\ Len(batch) =
         Min(limit, Cardinality({i \in Rows : store[i].status \in PollerStatuses}))
    /\ \A k \in 1..Len(batch) :
          /\ batch[k] \in {store[i] : i \in Rows}
          /\ batch[k].status \in PollerStatuses
    /\ \A j, k \in 1..Len(batch) :
          /\ j < k => batch[j].createdAt <= batch[k].createdAt
          /\ j # k => batch[j].txHash # batch[k].txHash
    /\ \A i \in Rows :
          store[i].status \in PollerStatuses
              /\ (\A k \in 1..Len(batch) : batch[k].txHash # store[i].txHash)
          => \A k \in 1..Len(batch) : batch[k].createdAt <= store[i].createdAt

\* The jobs of the running cycle that are still to be handled: at most 20,
\* read as pending or polling, each once, in ascending createdAt order
RestInOrder(jobs) ==
    /\ Len(jobs) <= 20
    /\ \A k \in 1..Len(jobs) : jobs[k].status \in PollerStatuses
    /\ \A j, k \in 1..Len(jobs) :
          /\ j < k => jobs[j].createdAt <= jobs[k].createdAt
          /\ j # k => jobs[j].txHash # jobs[k].txHash

\* `rest` is what remains of `jobs` after its first k entries, for some k
IsRestOf(rest, jobs, from) ==
    \E k \in from..Len(jobs) : rest = SubSeq(jobs, k + 1, Len(jobs))

C35_BatchStep ==
    /\ \A limit \in 0..MaxBatchLimit :
          \A batch \in getJobsByStatus(store, PollerStatuses, limit) :
              OldestBatch(batch, limit)
    /\ RestInOrder(pollerJobs) /\ RestInOrder(pollerJobs')
    /\ pollerPc = "top" =>
          \E batch \in getJobsByStatus(store, PollerStatuses, 20) :
              /\ OldestBatch(batch, 20)
              /\ IsRestOf(pollerJobs',
                          [k \in 1..Len(batch) |-> pollerView(batch[k])], 0)
    /\ pollerPc = "fetch" /\ pollerJobs' # pollerJobs =>
          IsRestOf(pollerJobs', pollerJobs, 1)
    /\ pollerPc = "backoff" => pollerJobs' = <<>>

\* C35: the jobs a poller cycle processes are a batch of at most 20 rows that
\* were pending or polling when the batch was read, the oldest such rows by
\* createdAt, handled in ascending createdAt order; once the request of a
\* job was answered the cycle does not come back to that job.
C35_OldestBatchInOrder == [][C35_BatchStep]_vars

\* A cycle with two jobs of different age: the request for the older one is
\* in flight, the younger one waits for its turn
C35_Witness ==
    /\ pollerPc = "fetch"
    /\ Len(pollerJobs) = 2
    /\ pollerJobs[1].createdAt < pollerJobs[2].createdAt

\* The submitter calls estimateGas for the job it has just read
StartsDryRun == submitterPc = "top" /\ submitterPc' = "estimateGas"

\* The dry-run has answered and the submitter sends the transaction
StartsBroadcast == submitterPc = "estimateGas" /\ submitterPc' = "send"

\* Another row is attested and was created strictly before the job
OlderAttested(s, job) ==
    \E i \in 1..Len(s) :
        /\ s[i].txHash # job.txHash
        /\ s[i].status = "attested"
        /\ s[i].createdAt < getJob(s, job.txHash).createdAt

StoreCallUpdates == StoreUpdates[storeCall'.update]

\* updateJob left everything but the named fields and updatedAt of the rows
\* with that txHash as it was
UpdateFrame(txHash, updates) ==
    /\ Len(store') = Len(store)
    /\ \A i \in 1..Len(store) :
          IF store[i].txHash = txHash
          THEN /\ store'[i].updatedAt = now
               /\ \A f \in DOMAIN store[i] \ (DOMAIN updates \cup {"updatedAt"}) :
                     store'[i][f] = store[i][f]
               /\ \A f \in DOMAIN updates \cap columnMap : store'[i][f] = updates[f]
               /\ store'[i].txHash = txHash
          ELSE store'[i] = store[i]

\* C37: createJob with a txHash that already exists throws and leaves every
\* row as it was; updateJob changes only the fields named in its argument
\* and updatedAt, in the one row with that txHash, and changes nothing when
\* no row has that txHash.
C37_StoreFrame ==
    [][now' = now =>
          /\ storeCall'.op = "createJob" /\ HasJob(store, storeCall'.txHash)
                => storeCall'.threw /\ store' = store
          /\ storeCall'.op = "updateJob"
                => /\ ~storeCall'.threw
                   /\ UpdateFrame(storeCall'.txHash, StoreCallUpdates)
                   /\ Cardinality({i \in 1..Len(store) :
                                      store[i].txHash = storeCall'.txHash}) <= 1
                   /\ ~HasJob(store, storeCall'.txHash) => store' = store]_vars

\* createJob has thrown for a txHash whose row had been updated, with another
\* row in the table
C37_Witness ==
    /\ storeCall.op = "createJob"
    /\ storeCall.threw
    /\ Len(store) = 2
    /\ getJob(store, storeCall.txHash).status = "failed"
    /\ getJob(store, storeCall.txHash).updatedAt > getJob(store, storeCall.txHash).createdAt

\* A step of the submitter loop: every segment of it moves submitterPc
SubmitterStep == submitterPc' # submitterPc

\* A step of the poller loop (a cycle that fails every job of its batch for
\* attestation_timeout ends where it began)
PollerStep ==
    /\ ~SubmitterStep
    /\ pollerPc \in {"top", "fetch"}
    /\ submitterJob' = submitterJob

\* The rows the step has written
RowsWritten == {i \in 1..Len(store) : store'[i] # store[i]}

\* C38: every update of the poller is made on a row whose stored status is
\* pending or polling at that moment, and every update of the submitter on
\* the row of its job, whose stored status is attested or submitted at that
\* moment; the status a loop finds there is the one it read (the rest of the
\* poller's batch) or wrote itself (the job whose answer it awaited) before
\* its awaits, never one written meanwhile by the other loop.
C38_WritersDisjoint ==
    [][\A i \in RowsWritten :
          /\ PollerStep \/ SubmitterStep
          /\ PollerStep =>
                /\ store[i].status \in {"pending", "polling"}
                /\ pollerPc = "fetch" =>
                      \E k \in 1..Len(pollerJobs) :
                          /\ pollerJobs[k].txHash = store[i].txHash
                          /\ store[i].status =
                                IF k = 1 THEN "polling" ELSE pollerJobs[k].status
          /\ SubmitterStep =>
                /\ pollerPc' = pollerPc /\ pollerJobs' = pollerJobs
                /\ store[i].txHash = submitterJob.txHash
                /\ store[i].status \in {"attested", "submitted"}
                /\ store[i].status = "submitted" <=> submitterPc = "wait"]_vars

\* Both loops stand at an await, each with its own job: the poller's job is
\* polling, the submitter's has been written submitted
C38_Witness ==
    /\ pollerPc = "fetch"
    /\ submitterPc = "wait"
    /\ Head(pollerJobs).txHash # submitterJob.txHash
    /\ getJob(store, Head(pollerJobs).txHash).status = "polling"
    /\ getJob(store, submitterJob.txHash).status = "submitted"

\* The revert reasons of the contract's validation phase the validator is to
\* rule out
ValidationReverts ==
    {"message too short", "invalid destinationDomain", "invalid destinationCaller",
     "invalid mintRecipient"}

\* The router configured for the validator is the contract's address, as
\* text in any letter case
SameRouter(call) ==
    /\ addressToLowerCase(call.router) = routerAddress
    /\ bytes32ToLowerCase(call.router32) = routerBytes32

\* receiveAndForward on the message, on a ledger that has seen no transfer
FirstCall(message) == receiveAndForward(message, relayFee, TRUE, {}, {}, 0)

\* C39: a message that validateAttestedMessage accepts for the router does
\* not make receiveAndForward revert with 'message too short', 'invalid
\* destinationDomain', 'invalid destinationCaller' or 'invalid mintRecipient'.
C39_ValidatorImpliesContract ==
    validatorCall.calls > 0 /\ validatorCall.result.valid /\ SameRouter(validatorCall)
        => \/ FirstCall(validatorCall.message).ok
           \/ FirstCall(validatorCall.message).reason \notin ValidationReverts

\* C40: the token count of the bucket is never below 0 nor above maxTokens;
\* as acquire() returns right after `tokens -= 1`, a count below 0 is a
\* return for which no whole token was there at the decrement.
C40_TokenBounds == 0 <= bucket.tokens /\ bucket.tokens <= maxTokens

====
